---- MODULE Spec2Model ----
(***************************************************************************)
(* Deploy Checklist Bot: the classifier (skills), the checklist engine,    *)
(* the debounce map and the pull_request handlers, as one state machine.   *)
(*                                                                         *)
(* Text is modelled structurally.  A markdown document is a sequence of    *)
(* lines, each line a record [t, chk, a, b] (t the kind of line).  A path  *)
(* is a sequence of segments and a segment a sequence of dot-separated     *)
(* parts, so ".github/workflows/ci.yml" is                                 *)
(* << <<"", "github">>, <<"workflows">>, <<"ci", "yml">> >>.               *)
(* An optional value (T | null) is a sequence of length 0 or 1.            *)
(***************************************************************************)
EXTENDS Integers, Sequences, FiniteSets, TLC

VARIABLES comments, reviews, pending, timers, tasks, head, edits, faults,
          cl, cf, td, an, hp, mc, bp, rl

vars == <<comments, reviews, pending, timers, tasks, head, edits, faults,
          cl, cf, td, an, hp, mc, bp, rl>>

None == <<>>

Some(x) == <<x>>

IsSome(o) == Len(o) > 0

Get(o) == o[1]

Range(s) == {s[i] : i \in 1..Len(s)}

\* All sequences over S of length at most n.
SeqUpTo(S, n) == UNION {[1..k -> S] : k \in 0..n}

\* Number of positions of s that satisfy Test.
Count(s, Test(_)) == Cardinality({i \in 1..Len(s) : Test(s[i])})

(***************************************************************************)
(* Bounds                                                                  *)
(***************************************************************************)
MaxItems == 2

MaxFiles == 2

MaxEvents == 2

MaxEdits == 1

MaxFaults == 1

(***************************************************************************)
(* Glob matching (minimatch) over structured paths                         *)
(***************************************************************************)
GLOBSTAR == <<"**">>

\* A segment whose first part is empty starts with a dot (".github").
IsDotSegment(seg) == Len(seg) > 1 /\ seg[1] = ""

\* One path segment against one segment pattern; the part "*" stands for
\* any run of characters without "/", hence one or more dot-separated parts.
RECURSIVE PartsMatch(_, _)
PartsMatch(parts, pparts) ==
    IF pparts = <<>> THEN parts = <<>>
    ELSE IF Head(pparts) = "*"
         THEN \E k \in 1..Len(parts) :
                  PartsMatch(SubSeq(parts, k + 1, Len(parts)), Tail(pparts))
         ELSE /\ parts # <<>>
              /\ Head(parts) = Head(pparts)
              /\ PartsMatch(Tail(parts), Tail(pparts))

SegMatch(seg, pseg, dot) ==
    /\ (dot \/ ~IsDotSegment(seg) \/ Head(pseg) = "")
    /\ PartsMatch(seg, pseg)

\* minimatch's matchOne: a globstar swallows zero or more whole segments, a
\* trailing globstar needs at least one segment left.
RECURSIVE MatchOne(_, _, _)
MatchOne(file, pattern, dot) ==
    IF pattern = <<>> THEN file = <<>>
    ELSE IF Head(pattern) = GLOBSTAR
         THEN IF Len(pattern) = 1
              THEN /\ Len(file) >= 1
                   /\ (dot \/ \A i \in 1..Len(file) : ~IsDotSegment(file[i]))
              ELSE \E k \in 0..Len(file) :
                       /\ (dot \/ \A i \in 1..k : ~IsDotSegment(file[i]))
                       /\ MatchOne(SubSeq(file, k + 1, Len(file)),
                                   Tail(pattern), dot)
         ELSE /\ file # <<>>
              /\ SegMatch(Head(file), Head(pattern), dot)
              /\ MatchOne(Tail(file), Tail(pattern), dot)

minimatch(file, pattern, dot) == MatchOne(file, pattern, dot)

(***************************************************************************)
(* Regular expressions.  The diff text is modelled by the set of           *)
(* (source, flags) pairs of regular expressions that test true on it.      *)
(***************************************************************************)
CaseInsensitivePrefixed ==
    { "(?i)(api[_-]?key|access[_-]?token|secret[_-]?key|private[_-]?key|client[_-]?secret)",
      "(?i)(password|passwd|pwd)\\s*[=:]\\s*['\"][^'\"]{6,}" }

\* pattern.startsWith("(?i)")
StartsWithI(pattern) == pattern \in CaseInsensitivePrefixed

\* pattern.slice(4) of the patterns that carry the prefix
Slice4(pattern) ==
    IF pattern = "(?i)(api[_-]?key|access[_-]?token|secret[_-]?key|private[_-]?key|client[_-]?secret)"
    THEN "(api[_-]?key|access[_-]?token|secret[_-]?key|private[_-]?key|client[_-]?secret)"
    ELSE "(password|passwd|pwd)\\s*[=:]\\s*['\"][^'\"]{6,}"

RegExpTest(src, flags, diffContent) ==
    [src |-> src, flags |-> flags] \in diffContent

\* new RegExp(src, flags) throws a SyntaxError on a source JavaScript cannot
\* compile; of the catalog's strings those are the ones that still carry the
\* inline "(?i)" group.
RegExpThrows(src) == src \in CaseInsensitivePrefixed

\* Variant: minimatch without { dot: true }.
matchesPathsNoDot(filesChanged, patterns) ==
    \E i \in 1..Len(filesChanged) : \E j \in 1..Len(patterns) :
        minimatch(filesChanged[i], patterns[j], FALSE)

matchesPaths(filesChanged, patterns) ==
    \E i \in 1..Len(filesChanged) : \E j \in 1..Len(patterns) :
        minimatch(filesChanged[i], patterns[j], TRUE)

matchesContent(diffContent, patterns) ==
    \E j \in 1..Len(patterns) :
        LET iFlag == StartsWithI(patterns[j])
            src == IF iFlag THEN Slice4(patterns[j]) ELSE patterns[j]
        IN  RegExpTest(src, IF iFlag THEN "i" ELSE "", diffContent)

\* patterns.some(...) throws when it reaches a pattern whose RegExp cannot
\* be built before a pattern that tests true.
matchesContentThrows(diffContent, patterns) ==
    \E j \in 1..Len(patterns) :
        LET Src(k) == IF StartsWithI(patterns[k]) THEN Slice4(patterns[k])
                      ELSE patterns[k]
            Flags(k) == IF StartsWithI(patterns[k]) THEN "i" ELSE ""
        IN  /\ RegExpThrows(Src(j))
            /\ \A k \in 1..(j - 1) : ~RegExpTest(Src(k), Flags(k), diffContent)

(***************************************************************************)
(* The built-in skills.  usesPaths / content say which of matchesPaths     *)
(* and matchesContent the skill's detect() consults.                       *)
(***************************************************************************)
Skill(id, paths, companionPaths, usesPaths, content, full) ==
    [id |-> id, paths |-> paths, companionPaths |-> companionPaths,
     usesPaths |-> usesPaths, content |-> content, includeFullFiles |-> full]

\* "**/name/**"
Under(name) == <<GLOBSTAR, <<name>>, GLOBSTAR>>

SKILLS ==
    << Skill("migration-entity",
             <<Under("entities"), Under("models"), Under("entity"), Under("model")>>,
             <<Under("migrations"), Under("migrate"),
               << <<"db">>, <<"migrate">>, GLOBSTAR >>,
               << <<"alembic">>, <<"versions">>, GLOBSTAR >> >>,
             TRUE,
             <<"@Column", "@Entity", "@Table", "createTable", "addColumn",
               "Schema\\.define", "models\\.Model", "DataTypes\\.">>,
             TRUE),
       Skill("migration-review",
             <<Under("migrations"),
               << <<"db">>, <<"migrate">>, GLOBSTAR >>,
               << <<"alembic">>, <<"versions">>, GLOBSTAR >>,
               Under("migrate")>>,
             <<>>, TRUE, <<>>, FALSE),
       Skill("env-vars", <<>>, <<>>, FALSE,
             <<"process\\.env\\.", "os\\.environ", "ENV\\[", "getenv\\(",
               "dotenv", "config\\(\\)">>,
             FALSE),
       Skill("secrets", <<>>, <<>>, FALSE,
             <<"(?i)(api[_-]?key|access[_-]?token|secret[_-]?key|private[_-]?key|client[_-]?secret)",
               "(?i)(password|passwd|pwd)\\s*[=:]\\s*['\"][^'\"]{6,}",
               "BEGIN (RSA|EC|OPENSSH|PGP) PRIVATE KEY",
               "sk-[a-zA-Z0-9]{20,}", "ghp_[a-zA-Z0-9]{36}",
               "vault\\.read|secretsmanager|aws_secret">>,
             FALSE),
       Skill("api-contract",
             <<Under("routes"), Under("api"), Under("controllers"),
               <<GLOBSTAR, <<"*", "proto">> >>,
               <<GLOBSTAR, <<"schema", "graphql">> >>,
               <<GLOBSTAR, <<"graphql">>, <<"schema">>, GLOBSTAR>> >>,
             <<>>, TRUE, <<>>, FALSE),
       Skill("api-schema",
             << << <<"openapi", "yml">> >>, << <<"openapi", "yaml">> >>,
                << <<"swagger", "yml">> >>, << <<"swagger", "yaml">> >>,
                Under("openapi"), Under("swagger"),
                <<GLOBSTAR, <<"*", "proto">> >>,
                <<GLOBSTAR, <<"schema", "graphql">> >> >>,
             <<>>, TRUE, <<>>, FALSE),
       Skill("configuration",
             << Under("config"),
                << <<"*", "config", "ts">> >>, << <<"*", "config", "js">> >>,
                << <<"*", "config", "mjs">> >>,
                << <<"app", "yml">> >>, << <<"app", "yaml">> >>,
                << <<"settings", "py">> >>,
                << <<"application", "yml">> >>, << <<"application", "yaml">> >>,
                << <<"appsettings", "json">> >> >>,
             <<>>, TRUE,
             <<"feature[_-]?flag", "featureFlag", "FEATURE_", "LaunchDarkly",
               "unleash", "flipper", "rollout">>,
             FALSE),
       Skill("data-access", <<>>, <<>>, FALSE,
             <<"SELECT .* FROM", "INSERT INTO", "UPDATE .* SET", "DELETE FROM",
               "\\.findAll\\(", "\\.findMany\\(", "\\.query\\(", "WHERE .* LIKE",
               "for.*await.*find", "forEach.*query", "N\\+1">>,
             FALSE),
       Skill("authentication",
             <<Under("auth"), Under("middleware"), Under("guards"),
               Under("interceptors")>>,
             <<>>, TRUE,
             <<"authenticate", "authorize", "jwt\\.verify", "jwt\\.sign",
               "session\\.", "passport\\.", "requireAuth", "@Auth", "RBAC",
               "permission", "role\\.">>,
             FALSE),
       Skill("infrastructure",
             << <<GLOBSTAR, <<"*", "tf">> >>, <<GLOBSTAR, <<"*", "tfvars">> >>,
                Under("k8s"), Under("kubernetes"), Under("helm"),
                Under("ansible"), Under("terraform"),
                <<GLOBSTAR, <<"*", "hcl">> >> >>,
             <<>>, TRUE, <<>>, FALSE),
       Skill("ci-cd",
             << << <<"", "github">>, <<"workflows">>, GLOBSTAR >>,
                << <<"", "gitlab-ci", "yml">> >>,
                << <<"Jenkinsfile">> >>,
                << <<"", "circleci">>, GLOBSTAR >>,
                << <<"", "buildkite">>, GLOBSTAR >>,
                << <<"azure-pipelines", "yml">> >>,
                <<GLOBSTAR, <<"", "drone", "yml">> >> >>,
             <<>>, TRUE, <<>>, FALSE),
       Skill("dependencies",
             << << <<"package-lock", "json">> >>, << <<"yarn", "lock">> >>,
                << <<"pnpm-lock", "yaml">> >>, << <<"poetry", "lock">> >>,
                << <<"go", "sum">> >>, << <<"Gemfile", "lock">> >>,
                << <<"pom", "xml">> >>, << <<"build", "gradle">> >>,
                << <<"build", "gradle", "kts">> >>, << <<"Cargo", "lock">> >>,
                << <<"composer", "lock">> >> >>,
             <<>>, TRUE, <<>>, FALSE),
       Skill("docker",
             << << <<"Dockerfile">> >>, << <<"Dockerfile", "*">> >>,
                <<GLOBSTAR, <<"Dockerfile">> >>,
                <<GLOBSTAR, <<"Dockerfile", "*">> >>,
                << <<"docker-compose", "yml">> >>,
                << <<"docker-compose", "yaml">> >>,
                << <<"docker-compose", "*", "yml">> >>,
                << <<"docker-compose", "*", "yaml">> >>,
                << <<"", "dockerignore">> >> >>,
             <<>>, TRUE, <<>>, FALSE),
       Skill("api-routes",
             <<Under("routes"), Under("api"), Under("controllers"),
               Under("views"), Under("endpoints")>>,
             <<>>, TRUE, <<>>, FALSE) >>

\* skill.detect(filesChanged, diffContent)
detect(skill, filesChanged, diffContent) ==
    LET pathMatch == skill.usesPaths /\ matchesPaths(filesChanged, skill.paths)
        contentMatch == matchesContent(diffContent, skill.content)
    IN  pathMatch \/ contentMatch

detectActiveSkills(filesChanged, diffContent) ==
    SelectSeq(SKILLS, LAMBDA skill : detect(skill, filesChanged, diffContent))

\* SKILLS.filter calls every skill's detect; the call throws when one does.
detectActiveSkillsThrows(filesChanged, diffContent) ==
    \E s \in 1..Len(SKILLS) : matchesContentThrows(diffContent, SKILLS[s].content)

allCoveredPatterns(activeSkills) ==
    UNION { Range(activeSkills[i].paths) \cup Range(activeSkills[i].companionPaths) :
            i \in 1..Len(activeSkills) }

\* Variant: minimatch without { dot: true }.
computeUncoveredFilesNoDot(filesChanged, activeSkills) ==
    IF allCoveredPatterns(activeSkills) = {}
    THEN filesChanged
    ELSE SelectSeq(filesChanged,
                   LAMBDA file : ~\E pattern \in allCoveredPatterns(activeSkills) :
                                      minimatch(file, pattern, FALSE))

computeUncoveredFiles(filesChanged, activeSkills) ==
    IF allCoveredPatterns(activeSkills) = {}
    THEN filesChanged
    ELSE SelectSeq(filesChanged,
                   LAMBDA file : ~\E pattern \in allCoveredPatterns(activeSkills) :
                                      minimatch(file, pattern, TRUE))


(***************************************************************************)
(* utils/diff-truncation.ts                                                *)
(*                                                                         *)
(* A diff is a sequence of per-file sections, each beginning with its      *)
(* "diff --git a/<f> b/<f>" header.  A section is [filename, n]: n lines   *)
(* of LineLen characters each; every section but the last ends with a      *)
(* newline (the next header starts a line), the last one does when the     *)
(* diff does.  Lengths are counted in characters.                          *)
(***************************************************************************)
LineLen == 60

SumOver(seq, F(_)) ==
    LET RECURSIVE Sum(_)
        Sum(k) == IF k = 0 THEN 0 ELSE F(seq[k]) + Sum(k - 1)
    IN  Sum(Len(seq))

\* "diff --git ", the prefix split() removes and parseDiffFiles puts back.
DiffHeader == "diff --git "

\* section.match(/a\/(.+?) b\//) found nothing.
NoMatch == <<>>

\* "unknown"
Unknown == << <<"unknown">> >>

\* parseDiffFiles: split on /^diff --git /m and re-attach the header.  A
\* diff is its sections, each with what the match on a/<name> b/ captures
\* in it; when diff.leading, the first section is the text in front of the
\* first header (all of the text when there is no header), to which the
\* header is attached as to the others.
parseDiffFiles(diff) ==
    [i \in 1..Len(diff.sections) |->
        [idx |-> i,
         filename |-> IF diff.sections[i].filename = NoMatch
                      THEN Unknown
                      ELSE diff.sections[i].filename,
         n |-> diff.sections[i].n,
         nl |-> (i < Len(diff.sections)) \/ diff.newline,
         lead |-> diff.leading /\ i = 1]]

\* The length of the section as it stands in the diff.
RawLength(file) ==
    file.n * LineLen + (file.n - 1) + (IF file.nl THEN 1 ELSE 0)

\* file.content.length
ContentLength(file) ==
    RawLength(file) + (IF file.lead THEN Len(DiffHeader) ELSE 0)

\* content.split("\n").length
SplitCount(file) == file.n + (IF file.nl THEN 1 ELSE 0)

\* diff.length
DiffLength(diff) == SumOver(parseDiffFiles(diff), RawLength)

\* A trigger of a config rule: paths and missing_companion (absent: empty).
Rule(id, paths, missing_companion) ==
    [id |-> id, paths |-> paths, missing_companion |-> missing_companion]

fileMatchesRules(filename, rules) ==
    \E r \in 1..Len(rules) :
        \E pattern \in Range(rules[r].paths) \cup Range(rules[r].missing_companion) :
            minimatch(filename, pattern, TRUE)

\* A piece of the output: a whole section, its first `lines` lines followed
\* by the truncation mark, or the omitted-files block.  idx is the position
\* in the diff of the section the piece was made from.
Part(idx, filename, kind, lines, len) ==
    [idx |-> idx, filename |-> filename, kind |-> kind, lines |-> lines, len |-> len]

WholePart(file) ==
    Part(file.idx, file.filename, "whole", SplitCount(file), ContentLength(file))

\* A section of the diff that is returned as it came in.
InputPart(file) ==
    Part(file.idx, file.filename, "whole", SplitCount(file), RawLength(file))

TruncatedMark == "\n... (truncated)"

\* truncateFileContent(content, maxLines)
truncateFileContent(file, maxLines) ==
    IF SplitCount(file) <= maxLines
    THEN WholePart(file)
    ELSE Part(file.idx, file.filename, "prefix", maxLines,
              maxLines * LineLen + (maxLines - 1) + Len(TruncatedMark)
              + (IF file.lead THEN Len(DiffHeader) ELSE 0))

\* The length of a file name, "src/models/user.ts" being
\* << <<"src">>, <<"models">>, <<"user", "ts">> >>.
FilenameLength(path) ==
    SumOver(path, LAMBDA seg : SumOver(seg, LAMBDA part : Len(part)) + (Len(seg) - 1))
    + (Len(path) - 1)

SummaryHeader == "\n# Files omitted from diff (not matching rule triggers):\n"

SummaryItemPrefix == "# - "

\* The trailing block that lists the omitted files.
SummaryPart(summarized) ==
    Part(0, <<>>, "summary", Len(summarized),
         Len(SummaryHeader)
         + SumOver(summarized, LAMBDA f : Len(SummaryItemPrefix) + FilenameLength(f))
         + (Len(summarized) - 1) + 1)

\* Variant: a triggered file that would pass 90% of the budget is skipped.
RECURSIVE TriggeredLoopSkip(_, _, _, _)
TriggeredLoopSkip(triggered, maxSize, parts, currentSize) ==
    IF triggered = <<>> THEN [parts |-> parts, currentSize |-> currentSize]
    ELSE LET file == Head(triggered)
             maxFileSize == maxSize \div 2
             content == IF ContentLength(file) > maxFileSize
                        THEN truncateFileContent(file, 100)
                        ELSE WholePart(file)
         IN  IF 10 * (currentSize + content.len) < 9 * maxSize
             THEN TriggeredLoopSkip(Tail(triggered), maxSize, Append(parts, content),
                                    currentSize + content.len)
             ELSE TriggeredLoopSkip(Tail(triggered), maxSize, parts, currentSize)

\* The loop over the triggered files: each is pushed, whole, cut to 100
\* lines when longer than half the budget, or cut to 50 lines when it would
\* pass 90% of the budget.
RECURSIVE TriggeredLoop(_, _, _, _)
TriggeredLoop(triggered, maxSize, parts, currentSize) ==
    IF triggered = <<>> THEN [parts |-> parts, currentSize |-> currentSize]
    ELSE LET file == Head(triggered)
             maxFileSize == maxSize \div 2
             content == IF ContentLength(file) > maxFileSize
                        THEN truncateFileContent(file, 100)
                        ELSE WholePart(file)
             pushed == IF 10 * (currentSize + content.len) < 9 * maxSize
                       THEN content
                       ELSE truncateFileContent(file, 50)
         IN  TriggeredLoop(Tail(triggered), maxSize, Append(parts, pushed),
                           currentSize + pushed.len)

\* Variant: a background file that does not fit is cut instead of omitted.
RECURSIVE NonTriggeredLoopCut(_, _, _, _, _)
NonTriggeredLoopCut(nonTriggered, maxSize, parts, currentSize, summarized) ==
    IF nonTriggered = <<>>
    THEN [parts |-> parts, currentSize |-> currentSize, summarized |-> summarized]
    ELSE LET file == Head(nonTriggered)
         IN  IF currentSize + ContentLength(file) < maxSize
             THEN NonTriggeredLoopCut(Tail(nonTriggered), maxSize,
                                      Append(parts, WholePart(file)),
                                      currentSize + ContentLength(file), summarized)
             ELSE NonTriggeredLoopCut(Tail(nonTriggered), maxSize,
                                      Append(parts, truncateFileContent(file, 50)),
                                      currentSize, summarized)

\* The loop over the other files: pushed whole while they fit, else
\* summarized.
RECURSIVE NonTriggeredLoop(_, _, _, _, _)
NonTriggeredLoop(nonTriggered, maxSize, parts, currentSize, summarized) ==
    IF nonTriggered = <<>>
    THEN [parts |-> parts, currentSize |-> currentSize, summarized |-> summarized]
    ELSE LET file == Head(nonTriggered)
         IN  IF currentSize + ContentLength(file) < maxSize
             THEN NonTriggeredLoop(Tail(nonTriggered), maxSize,
                                   Append(parts, WholePart(file)),
                                   currentSize + ContentLength(file), summarized)
             ELSE NonTriggeredLoop(Tail(nonTriggered), maxSize, parts, currentSize,
                                   Append(summarized, file.filename))

\* Variant: truncated is reported only when something was cut or omitted.
truncateDiffLazyFlag(diff, maxSize, rules) ==
    LET files == parseDiffFiles(diff)
    IN  IF DiffLength(diff) <= maxSize
        THEN [parts |-> [i \in 1..Len(files) |-> InputPart(files[i])], sep |-> 0,
              truncated |-> FALSE, filesSummarized |-> <<>>]
        ELSE LET triggered == SelectSeq(files, LAMBDA f : fileMatchesRules(f.filename, rules))
                 nonTriggered == SelectSeq(files, LAMBDA f : ~fileMatchesRules(f.filename, rules))
                 a == TriggeredLoop(triggered, maxSize, <<>>, 0)
                 b == NonTriggeredLoop(nonTriggered, maxSize, a.parts, a.currentSize, <<>>)
                 parts == IF Len(b.summarized) > 0
                          THEN Append(b.parts, SummaryPart(b.summarized))
                          ELSE b.parts
             IN  [parts |-> parts, sep |-> 1,
                  truncated |-> \E i \in 1..Len(parts) : parts[i].kind # "whole",
                  filesSummarized |-> b.summarized]

\* truncateDiff(diff, maxSize, rules).  The result's diff is parts joined by
\* sep newlines (the input itself when nothing is done).
truncateDiff(diff, maxSize, rules) ==
    LET files == parseDiffFiles(diff)
    IN  IF DiffLength(diff) <= maxSize
        THEN [parts |-> [i \in 1..Len(files) |-> InputPart(files[i])], sep |-> 0,
              truncated |-> FALSE, filesSummarized |-> <<>>]
        ELSE LET triggered == SelectSeq(files, LAMBDA f : fileMatchesRules(f.filename, rules))
                 nonTriggered == SelectSeq(files, LAMBDA f : ~fileMatchesRules(f.filename, rules))
                 a == TriggeredLoop(triggered, maxSize, <<>>, 0)
                 b == NonTriggeredLoop(nonTriggered, maxSize, a.parts, a.currentSize, <<>>)
                 parts == IF Len(b.summarized) > 0
                          THEN Append(b.parts, SummaryPart(b.summarized))
                          ELSE b.parts
             IN  [parts |-> parts, sep |-> 1, truncated |-> TRUE,
                  filesSummarized |-> b.summarized]

\* result.diff.length
OutputLength(out) ==
    SumOver(out.parts, LAMBDA part : part.len)
    + (IF Len(out.parts) > 0 THEN out.sep * (Len(out.parts) - 1) ELSE 0)


(***************************************************************************)
(* Checklist engine (services/checklist.ts)                                *)
(***************************************************************************)
Line(t, chk, a, b) == [t |-> t, chk |-> chk, a |-> a, b |-> b]

\* "<!-- deploy-checklist-bot:v1 -->"
BOT_MARKER == Line("marker", FALSE, "deploy-checklist-bot:v1", "")

\* text.includes(BOT_MARKER)
HasMarker(text) == \E i \in 1..Len(text) : text[i] = BOT_MARKER

\* The identity of an item across analyses: "rule_id:description".
ItemKey(item) == <<item.rule_id, item.description>>

Priorities == <<"high", "medium", "low">>

\* Variant: the low tier is left out.
sortByPriorityDropLow(entries) ==
    SelectSeq(entries, LAMBDA e : e.item.priority = Priorities[1])
    \o SelectSeq(entries, LAMBDA e : e.item.priority = Priorities[2])

\* Variant: an unstable sort, the order inside a tier comes out reversed.
sortByPriorityUnstable(entries) ==
    LET tier(p) == SelectSeq(entries, LAMBDA e : e.item.priority = p)
        reversed(q) == [i \in 1..Len(q) |-> q[Len(q) + 1 - i]]
    IN  reversed(tier(Priorities[1])) \o reversed(tier(Priorities[2]))
        \o reversed(tier(Priorities[3]))

\* Stable sort of entries [item, checked] by the item's priority.
sortByPriority(entries) ==
    SelectSeq(entries, LAMBDA e : e.item.priority = Priorities[1])
    \o SelectSeq(entries, LAMBDA e : e.item.priority = Priorities[2])
    \o SelectSeq(entries, LAMBDA e : e.item.priority = Priorities[3])

\* "- [ ] **check**" / "  description — reasoning" / "  _Rule: rule_id_"
ItemLines(e) ==
    << Line("item", e.checked, e.item.check, ""),
       Line("body", FALSE, e.item.description, e.item.reasoning),
       Line("rule", FALSE, e.item.rule_id, "") >>

RECURSIVE FlattenItems(_)
FlattenItems(entries) ==
    IF entries = <<>> THEN <<>>
    ELSE ItemLines(Head(entries)) \o FlattenItems(Tail(entries))

\* Variant: every uncovered file is rendered as a checkbox item.
ManualReviewSectionAsItems(result) ==
    IF result.uncovered_files = <<>> /\ result.open_concerns = <<>>
    THEN <<>>
    ELSE << Line("h3", FALSE, "Needs Manual Review", "") >>
         \o FlattenItems([i \in 1..Len(result.uncovered_files) |->
                [checked |-> FALSE,
                 item |-> [rule_id |-> "manual-review", check |-> "Review manually",
                           description |-> result.uncovered_files[i],
                           reasoning |-> "No rule covers this file"]]])

\* The informational "Needs Manual Review" section; none of its lines is a
\* checkbox line.
ManualReviewSection(result) ==
    IF result.uncovered_files = <<>> /\ result.open_concerns = <<>>
    THEN <<>>
    ELSE << Line("h3", FALSE, "Needs Manual Review", "") >>
         \o [i \in 1..Len(result.uncovered_files) |->
                Line("info", FALSE, result.uncovered_files[i], "")]
         \o [i \in 1..Len(result.open_concerns) |->
                Line("info", FALSE, result.open_concerns[i].file,
                     result.open_concerns[i].concern)]

renderChecklist(entries, result, sha) ==
    << Line("h2", FALSE, "Deploy Checklist", ""),
       BOT_MARKER,
       Line("sha", FALSE, sha, ""),
       Line("quote", FALSE, result.summary, "") >>
    \o FlattenItems(sortByPriority(entries))
    \o ManualReviewSection(result)
    \o << Line("footer", FALSE, "Re-analyze: push a new commit", "") >>

generateChecklist(result, sha) ==
    renderChecklist([i \in 1..Len(result.items) |->
                        [item |-> result.items[i], checked |-> FALSE]],
                    result, sha)

\* The positions where ITEM_REGEX matches: a checkbox line followed by its
\* body line and its rule line.
ItemMatches(text) ==
    SelectSeq([i \in 1..Len(text) |-> i],
              LAMBDA i : /\ text[i].t = "item"
                         /\ i + 2 <= Len(text)
                         /\ text[i + 1].t = "body"
                         /\ text[i + 2].t = "rule")

\* SHA_REGEX: the first "<!-- sha:... -->", "" when there is none.
ExtractSha(text) ==
    LET shaLines == SelectSeq(text, LAMBDA l : l.t = "sha")
    IN  IF shaLines = <<>> THEN "" ELSE shaLines[1].a

\* Variant: one checkbox line that does not parse fails the whole parse.
parseChecklistStrict(text) ==
    IF ~HasMarker(text) THEN None
    ELSE IF \E i \in 1..Len(text) :
               text[i].t = "item" /\ ~\E k \in 1..Len(ItemMatches(text)) :
                                         ItemMatches(text)[k] = i
    THEN None
    ELSE LET m == ItemMatches(text)
             items == [k \in 1..Len(m) |->
                          [checked |-> text[m[k]].chk,
                           item |-> [rule_id |-> text[m[k] + 2].a,
                                     check |-> text[m[k]].a,
                                     description |-> text[m[k] + 1].a,
                                     reasoning |-> text[m[k] + 1].b]]]
         IN  Some([sha |-> ExtractSha(text),
                   items |-> items,
                   allComplete |-> \A k \in 1..Len(items) : items[k].checked])

parseChecklist(text) ==
    IF ~HasMarker(text) THEN None
    ELSE LET m == ItemMatches(text)
             items == [k \in 1..Len(m) |->
                          [checked |-> text[m[k]].chk,
                           item |-> [rule_id |-> text[m[k] + 2].a,
                                     check |-> text[m[k]].a,
                                     description |-> text[m[k] + 1].a,
                                     reasoning |-> text[m[k] + 1].b]]]
         IN  Some([sha |-> ExtractSha(text),
                   items |-> items,
                   allComplete |-> \A k \in 1..Len(items) : items[k].checked])

\* Variant: one checked item is enough.
isCompleteSome(text) ==
    IF parseChecklist(text) = None THEN TRUE
    ELSE \E k \in 1..Len(Get(parseChecklist(text)).items) :
            Get(parseChecklist(text)).items[k].checked

isComplete(text) ==
    IF parseChecklist(text) = None THEN TRUE
    ELSE Get(parseChecklist(text)).allComplete

\* The lookup map "rule_id:description" -> wasChecked built from the old
\* state; a later entry with the same key overwrites an earlier one.
InLookup(oldState, key) ==
    \E k \in 1..Len(oldState.items) : ItemKey(oldState.items[k].item) = key

Lookup(oldState, key) ==
    LET ks == {k \in 1..Len(oldState.items) : ItemKey(oldState.items[k].item) = key}
        last == CHOOSE k \in ks : \A j \in ks : j <= k
    IN  oldState.items[last].checked

\* Variant: the old state is ignored, every item starts unchecked.
mergeChecklistReset(oldState, newResult, newSha) ==
    renderChecklist([i \in 1..Len(newResult.items) |->
                        [item |-> newResult.items[i], checked |-> FALSE]],
                    newResult, newSha)

\* Variant: old items missing from the new result are kept at the end.
mergeChecklistKeepLegacy(oldState, newResult, newSha) ==
    LET legacy == SelectSeq(oldState.items,
                     LAMBDA o : ~\E i \in 1..Len(newResult.items) :
                                    ItemKey(newResult.items[i]) = ItemKey(o.item))
    IN  renderChecklist(
            [i \in 1..Len(newResult.items) |->
                [item |-> newResult.items[i],
                 checked |-> IF InLookup(oldState, ItemKey(newResult.items[i]))
                             THEN Lookup(oldState, ItemKey(newResult.items[i]))
                             ELSE FALSE]]
            \o [k \in 1..Len(legacy) |->
                  [item |-> [rule_id |-> legacy[k].item.rule_id,
                             check |-> legacy[k].item.check,
                             description |-> legacy[k].item.description,
                             reasoning |-> legacy[k].item.reasoning,
                             priority |-> "low"],
                   checked |-> legacy[k].checked]],
            newResult, newSha)

mergeChecklist(oldState, newResult, newSha) ==
    renderChecklist([i \in 1..Len(newResult.items) |->
                        [item |-> newResult.items[i],
                         checked |-> IF InLookup(oldState, ItemKey(newResult.items[i]))
                                     THEN Lookup(oldState, ItemKey(newResult.items[i]))
                                     ELSE FALSE]],
                    newResult, newSha)


(***************************************************************************)
(* Inputs of the pure components                                           *)
(***************************************************************************)
Item(rule_id, check, description, reasoning, priority) ==
    [rule_id |-> rule_id, check |-> check, description |-> description,
     reasoning |-> reasoning, priority |-> priority]

ItemX == Item("env-vars", "Confirm env vars set", "Add DATABASE_URL",
              "New env var referenced", "medium")

ItemY == Item("docker", "Verify base image", "Pin base image",
              "Dockerfile modified", "high")

\* Same description as ItemX under another rule: a different identity.
ItemZ == Item("docker", "Verify base image", "Add DATABASE_URL",
              "Dockerfile modified", "low")

\* Same identity as ItemX with another priority and rationale.
ItemW == Item("env-vars", "Confirm env vars set", "Add DATABASE_URL",
              "Referenced again", "high")

ItemUniverse == {ItemX, ItemY, ItemZ, ItemW}

Shas == {"abc123", "def456"}

Result(items, uncovered, concerns) ==
    [items |-> items, summary |-> "Medium risk",
     uncovered_files |-> uncovered, open_concerns |-> concerns]

Results ==
    { Result(items, <<>>, <<>>) : items \in SeqUpTo(ItemUniverse, MaxItems) }
    \cup
    { Result(items, <<"src/unrelated.ts">>,
             << [file |-> "src/unrelated.ts", concern |-> "No rule covers this file"] >>) :
      items \in SeqUpTo(ItemUniverse, MaxItems) }

PlainComment == << Line("text", FALSE, "Just a regular comment", "") >>

PModel == << <<"src">>, <<"models">>, <<"user", "ts">> >>

PMigration == << <<"migrations">>, <<"001", "sql">> >>

PUnrelated == << <<"src">>, <<"unrelated", "ts">> >>

PWorkflow == << <<"", "github">>, <<"workflows">>, <<"ci", "yml">> >>

PDbMigrate == << <<"db">>, <<"migrate">>, <<"002", "rb">> >>

PDocker == << <<"Dockerfile", "prod">> >>

\* "config/.env.production": a dot file below a directory pattern
PEnvFile == << <<"config">>, <<"", "env", "production">> >>

PathUniverse ==
    {PModel, PMigration, PUnrelated, PWorkflow, PDbMigrate, PDocker, PEnvFile}

\* Changed-file lists are duplicate free (extractFilesFromDiff returns
\* [...new Set(files)]).
FileLists ==
    { f \in SeqUpTo(PathUniverse, MaxFiles) :
        \A i, j \in 1..Len(f) : i # j => f[i] # f[j] }

DiffFacts ==
    { [src |-> "@Column", flags |-> ""],
      [src |-> "process\\.env\\.", flags |-> ""],
      [src |-> "(api[_-]?key|access[_-]?token|secret[_-]?key|private[_-]?key|client[_-]?secret)",
       flags |-> "i"] }

DiffContents == SUBSET DiffFacts

\* Inputs of truncateDiff.
MaxSections == 3

LineCounts == {1, 60, 120}

Diffs ==
    { d \in [sections : SeqUpTo([filename : {PModel, PMigration, PUnrelated, NoMatch},
                                 n : LineCounts], MaxSections),
             newline : BOOLEAN, leading : BOOLEAN] :
        d.leading => Len(d.sections) >= 1 }

MaxSizes == {150, 4000, 8000, 25000}

\* trigger: { paths: ["migrations/**"] }
MigrationRule == Rule("migration", << << <<"migrations">>, GLOBSTAR >> >>, <<>>)

\* trigger: { paths: ["**/models/**"], missing_companion: ["**/migrations/**"] }
CompanionRule == Rule("entity-check", <<Under("models")>>, <<Under("migrations")>>)

RuleSets == {<<>>, <<MigrationRule>>, <<CompanionRule>>}

(***************************************************************************)
(* services/diff-analyzer.ts and schemas/analysis-result.ts                *)
(*                                                                         *)
(* A value of the model's reply is a record [type, v] as typeof sees it.   *)
(***************************************************************************)
JString(str) == [type |-> "string", v |-> str]

JNumber == [type |-> "number", v |-> "42"]

JUndefined == [type |-> "undefined", v |-> ""]

JArray(seq) == [type |-> "array", v |-> seq]

\* The item as the model sends it when it sends it right.
RawItem(it) ==
    [rule_id |-> JString(it.rule_id), check |-> JString(it.check),
     description |-> JString(it.description), reasoning |-> JString(it.reasoning),
     priority |-> JString(it.priority)]

\* ChecklistItemSchema: five required fields, priority an enum.
ChecklistItemSchemaOk(raw) ==
    /\ raw.rule_id.type = "string"
    /\ raw.check.type = "string"
    /\ raw.description.type = "string"
    /\ raw.reasoning.type = "string"
    /\ raw.priority.type = "string" /\ raw.priority.v \in Range(Priorities)

ChecklistItemSchemaParse(raw) ==
    Item(raw.rule_id.v, raw.check.v, raw.description.v, raw.reasoning.v,
         raw.priority.v)

\* Variant: items that do not validate are dropped.
AnalysisResultSchemaParseDropInvalid(input) ==
    IF input.items.type = "array" /\ input.summary.type = "string"
    THEN LET good == SelectSeq(input.items.v, ChecklistItemSchemaOk)
         IN  Some([items |-> [i \in 1..Len(good) |-> ChecklistItemSchemaParse(good[i])],
                   summary |-> input.summary.v])
    ELSE None

\* AnalysisResultSchema.parse(input): the typed result, or None for the
\* ZodError it throws.
AnalysisResultSchemaParse(input) ==
    IF /\ input.items.type = "array"
       /\ \A i \in 1..Len(input.items.v) : ChecklistItemSchemaOk(input.items.v[i])
       /\ input.summary.type = "string"
    THEN Some([items |-> [i \in 1..Len(input.items.v) |->
                              ChecklistItemSchemaParse(input.items.v[i])],
               summary |-> input.summary.v])
    ELSE None

\* skillsToRules(skills)
skillsToRules(skills) ==
    [i \in 1..Len(skills) |->
        [id |-> skills[i].id, paths |-> skills[i].paths,
         missing_companion |-> skills[i].companionPaths,
         include_full_files |-> skills[i].includeFullFiles]]

\* DEFAULT_RULES: the triggers' paths, missing_companion and
\* include_full_files.
DEFAULT_RULES ==
    << [id |-> "default-migration",
        paths |-> <<Under("entities"), Under("models"), Under("entity"), Under("model")>>,
        missing_companion |-> <<Under("migrations"), Under("migrate")>>,
        include_full_files |-> TRUE],
       [id |-> "default-migration-review",
        paths |-> <<Under("migrations")>>,
        missing_companion |-> <<>>, include_full_files |-> FALSE],
       [id |-> "default-env",
        paths |-> <<>>, missing_companion |-> <<>>, include_full_files |-> FALSE],
       [id |-> "default-ci",
        paths |-> << << <<"", "github">>, <<"workflows">>, GLOBSTAR >>,
                     << <<"", "gitlab-ci", "yml">> >>,
                     << <<"Jenkinsfile">> >> >>,
        missing_companion |-> <<>>, include_full_files |-> FALSE],
       [id |-> "default-deps",
        paths |-> << << <<"package-lock", "json">> >>, << <<"yarn", "lock">> >>,
                     << <<"Gemfile", "lock">> >>, << <<"poetry", "lock">> >>,
                     << <<"go", "sum">> >> >>,
        missing_companion |-> <<>>, include_full_files |-> FALSE] >>

MAX_FULL_FILES == 5

(***************************************************************************)
(* services/config-loader.ts                                               *)
(***************************************************************************)
\* Variant: a config file with rules replaces the built-in set.
mergeWithDefaultsReplaceAll(rules) ==
    IF rules = <<>> THEN DEFAULT_RULES ELSE rules

\* mergeWithDefaults(config).rules: the built-in rules whose id no user rule
\* has, followed by the user rules.
mergeWithDefaults(rules) ==
    LET userRuleIds == {rules[i].id : i \in 1..Len(rules)}
        defaultsToKeep == SelectSeq(DEFAULT_RULES, LAMBDA r : r.id \notin userRuleIds)
    IN  defaultsToKeep \o rules

\* loadConfig(...).config.rules and whether a warning comes with it, by what
\* the first config file found holds: no file and an empty file give
\* buildDefaultConfig(), a file that does not parse or validate gives it
\* with a warning, a valid file is merged with the defaults.
loadConfigRules(file, rules) ==
    IF file = "valid"
    THEN [rules |-> mergeWithDefaults(rules), warning |-> FALSE]
    ELSE [rules |-> DEFAULT_RULES, warning |-> file = "invalid"]

\* fetchTriggeredFileContents: the changed files it asks the platform for.
filesToFetch(rules, filesChanged) ==
    LET withFull == SelectSeq(rules, LAMBDA r : r.include_full_files /\ Len(r.paths) > 0)
        patterns == UNION {Range(withFull[i].paths) : i \in 1..Len(withFull)}
        matchingFiles == SelectSeq(filesChanged,
                            LAMBDA file : \E pattern \in patterns :
                                             minimatch(file, pattern, TRUE))
    IN  SubSeq(matchingFiles, 1,
               IF Len(matchingFiles) < MAX_FULL_FILES THEN Len(matchingFiles)
               ELSE MAX_FULL_FILES)

\* What the model endpoint can send back.
RawItems ==
    { RawItem(ItemX), RawItem(ItemY),
      [RawItem(ItemX) EXCEPT !.reasoning = JUndefined],
      [RawItem(ItemX) EXCEPT !.rule_id = JNumber],
      [RawItem(ItemX) EXCEPT !.priority = JString("urgent")],
      [RawItem(ItemY) EXCEPT !.priority = JUndefined] }

ToolInputs ==
    [items : {JArray(seq) : seq \in SeqUpTo(RawItems, MaxItems)} \cup {JUndefined},
     summary : {JString("Medium risk"), JUndefined, JNumber}]

\* response.content: with a tool_use block carrying input, or without one.
Replies ==
    {[tool_use |-> TRUE, input |-> input] : input \in ToolInputs}
    \cup {[tool_use |-> FALSE, input |-> [items |-> JUndefined, summary |-> JUndefined]]}

\* What can go wrong in anthropic.messages.create.
CallFailures == {"transport error", "timeout", "authentication failure"}

(***************************************************************************)
(* prompts/analysis.ts                                                     *)
(*                                                                         *)
(* The prompt is the sequence of its sections, joined by blank lines; a    *)
(* section is its "## " title and what follows it.                         *)
(***************************************************************************)
Section(title, body) == [title |-> title, body |-> body]

\* if (config.context): defined and not the empty string.
Truthy(optionalString) == IsSome(optionalString) /\ Get(optionalString) # ""

\* prMeta.body || "(no description)"
DescriptionOf(body) == IF body = "" THEN "(no description)" ELSE body

\* Variant: the order of the function's doc comment, context first.
buildUserPromptContextFirst(config, prMeta, diff, activeSkills, uncoveredFiles, fileContents) ==
    (IF Truthy(config.context)
     THEN << Section("Repository Context", <<Get(config.context)>>) >> ELSE <<>>)
    \o (IF Len(activeSkills) > 0
        THEN << Section("Active Skills", [i \in 1..Len(activeSkills) |-> activeSkills[i].id]) >>
        ELSE <<>>)
    \o (IF Len(config.rules) > 0
        THEN << Section("Custom Rules", [i \in 1..Len(config.rules) |-> config.rules[i].id]) >>
        ELSE <<>>)
    \o << Section("PR Information", <<prMeta.title, DescriptionOf(prMeta.body)>>) >>
    \o (IF IsSome(fileContents) /\ Len(Get(fileContents)) > 0
        THEN << Section("Full File Contents (for context)", Get(fileContents)) >>
        ELSE <<>>)
    \o (IF Len(uncoveredFiles) > 0
        THEN << Section("Files Without Skill Coverage", uncoveredFiles) >>
        ELSE <<>>)
    \o << Section("Diff", <<diff>>) >>
    \o << Section("Instructions", <<"Use the submit_analysis tool to return your findings.">>) >>

\* buildUserPrompt: sections.push(...) in the order of the code, then
\* sections.join("\n\n").
buildUserPrompt(config, prMeta, diff, activeSkills, uncoveredFiles, fileContents) ==
    (IF Len(activeSkills) > 0
     THEN << Section("Active Skills", [i \in 1..Len(activeSkills) |-> activeSkills[i].id]) >>
     ELSE <<>>)
    \o (IF Len(config.rules) > 0
        THEN << Section("Custom Rules", [i \in 1..Len(config.rules) |-> config.rules[i].id]) >>
        ELSE <<>>)
    \o (IF Truthy(config.context)
        THEN << Section("Repository Context", <<Get(config.context)>>) >> ELSE <<>>)
    \o << Section("PR Information", <<prMeta.title, DescriptionOf(prMeta.body)>>) >>
    \o (IF IsSome(fileContents) /\ Len(Get(fileContents)) > 0
        THEN << Section("Full File Contents (for context)", Get(fileContents)) >>
        ELSE <<>>)
    \o (IF Len(uncoveredFiles) > 0
        THEN << Section("Files Without Skill Coverage", uncoveredFiles) >>
        ELSE <<>>)
    \o << Section("Diff", <<diff>>) >>
    \o << Section("Instructions", <<"Use the submit_analysis tool to return your findings.">>) >>

(***************************************************************************)
(* services/diff-analyzer.ts, the text-reply analyzeDiff and its retry     *)
(* loop                                                                    *)
(*                                                                         *)
(* An error message is the sequence of its words; a text reply is          *)
(* [fenced, json, syntaxError]: json is the value the text denotes when it *)
(* is JSON, syntaxError the message of JSON.parse when it is not.          *)
(***************************************************************************)
MAX_RETRIES == 2

\* message.includes(needle)
Includes(message, needle) == \E i \in 1..Len(message) : message[i] = needle

NoTextContent == <<"No", "text", "content", "in", "Claude", "response">>

SyntaxErrorAtStart == <<"Unexpected", "token", "H", "in", "JSON", "at", "position", "0">>

\* A reply that breaks off in the middle of its JSON.
SyntaxErrorFarIn == <<"Unexpected", "end", "of", "JSON", "input", "at", "position", "401">>

ZodMessage == <<"invalid_type", "summary", "Required">>

ConnectionError == <<"Connection", "error.">>

AuthenticationError == <<"401", "authentication_error", "invalid", "x-api-key">>

PermissionDeniedError == <<"403", "permission_error", "forbidden">>

\* What anthropic.messages.create throws when it throws.
CreateErrors == {ConnectionError, AuthenticationError, PermissionDeniedError}

TextReply(fenced, json, syntaxError) ==
    [fenced |-> fenced, json |-> json, syntaxError |-> syntaxError]

ValidInput(result) ==
    [items |-> JArray([i \in 1..Len(result.items) |-> RawItem(result.items[i])]),
     summary |-> JString(result.summary)]

\* response.content.find(block => block.type === "text"): None when the
\* response has no text block.
TextBlocks ==
    { None,
      Some(TextReply(FALSE, None, SyntaxErrorAtStart)),
      Some(TextReply(FALSE, None, SyntaxErrorFarIn)),
      Some(TextReply(FALSE, Some([items |-> JArray(<<RawItem(ItemX)>>),
                                  summary |-> JUndefined]), <<>>)),
      Some(TextReply(FALSE, Some(ValidInput(Result(<<ItemX>>, <<>>, <<>>))), <<>>)),
      Some(TextReply(TRUE, Some(ValidInput(Result(<<ItemX, ItemY>>, <<>>, <<>>))), <<>>)) }

\* parseAnalysisResponse(responseText): the fence is taken off, then
\* JSON.parse and AnalysisResultSchema.parse, either of which throws.
parseAnalysisResponse(responseText) ==
    LET cleaned == [responseText EXCEPT !.fenced = FALSE]
    IN  IF ~IsSome(cleaned.json)
        THEN [threw |-> TRUE, message |-> cleaned.syntaxError, result |-> None]
        ELSE LET parsed == AnalysisResultSchemaParse(Get(cleaned.json))
             IN  IF IsSome(parsed)
                 THEN [threw |-> FALSE, message |-> <<>>, result |-> parsed]
                 ELSE [threw |-> TRUE, message |-> ZodMessage, result |-> None]

\* The body of the try block once messages.create has resolved.
ReadReply(textBlock) ==
    IF ~IsSome(textBlock)
    THEN [threw |-> TRUE, message |-> NoTextContent, result |-> None]
    ELSE parseAnalysisResponse(Get(textBlock))

\* Variant: the loop retries whatever the error.
IsUnrecoverableNever(message) == FALSE

\* lastError.message.includes("401") || lastError.message.includes("403")
IsUnrecoverable(message) == Includes(message, "401") \/ Includes(message, "403")


(***************************************************************************)
(* State of the pure-component specifications                              *)
(***************************************************************************)
ClIdle ==
    [stage |-> "idle", result |-> Result(<<>>, <<>>, <<>>), sha |-> "",
     text |-> <<>>, state |-> None, newResult |-> Result(<<>>, <<>>, <<>>),
     newSha |-> "", merged |-> <<>>]

CfIdle ==
    [stage |-> "idle", files |-> <<>>, diff |-> {}, active |-> <<>>,
     threw |-> FALSE, uncovered |-> <<>>]

TdIdle ==
    [stage |-> "idle", diff |-> [sections |-> <<>>, newline |-> FALSE, leading |-> FALSE],
     maxSize |-> 0, rules |-> <<>>,
     out |-> [parts |-> <<>>, sep |-> 0, truncated |-> FALSE,
              filesSummarized |-> <<>>]]

AnIdle ==
    [stage |-> "idle", files |-> <<>>, diff |-> {}, fetched |-> <<>>,
     reply |-> None, outcome |-> "none", result |-> None, failure |-> ""]

McIdle ==
    [stage |-> "idle", file |-> "absent", rules |-> <<>>, merged |-> <<>>,
     warning |-> FALSE]

BpIdle ==
    [stage |-> "idle", activeSkills |-> <<>>, rules |-> <<>>, context |-> <<>>,
     body |-> "", diff |-> "", uncoveredFiles |-> <<>>, fileContents |-> <<>>,
     out |-> <<>>]

\* attempt: the loop counter; sent: isRetry of every prompt issued;
\* warned: the message of every log.warn; outcome: "none", "result", "null".
RlIdle ==
    [stage |-> "idle", attempt |-> 0, sent |-> <<>>, warned |-> <<>>,
     outcome |-> "none", result |-> None]


(***************************************************************************)
(* The platform and the handlers                                           *)
(*                                                                         *)
(* comments[pr]  the PR's comments in creation order, [id, body, author]   *)
(* reviews[pr]   the PR's reviews, [author, event, state, task]            *)
(* pending       the debounce map: key -> timer (0: no entry)              *)
(* timers        the armed timers (setTimeout not yet fired or cleared)    *)
(* tasks         one entry per delivered webhook event (pull_request       *)
(*               events and issue_comment.edited events); a timer is named *)
(*               by the index of its task                                  *)
(* head[pr]      number of the PR's head commit                            *)
(***************************************************************************)
PRNumbers == {1, 2}

\* Issues that are not pull requests (payload.issue has no pull_request).
IssueNumbers == {3}

BotLogin == "deploy-checklist-bot[bot]"

ShaOf(n) == <<"abc123", "def456", "0a1b2c", "3d4e5f", "6a7b8c", "9d0e1f">>[n]

NewAnalysisActions == {"opened", "reopened", "ready_for_review"}

\* A summary the model can write that itself holds the characters "- [ ]".
BoxSummary == "Low risk; adds - [ ] task lists to the PR template."

\* str.includes("- [ ]") for a string of the analysis.
ContainsBox(str) == str = BoxSummary

\* The analyses the model endpoint can return in the handler runs.
SysResults ==
    { Result(<<>>, <<>>, <<>>), Result(<<ItemX>>, <<>>, <<>>),
      Result(<<ItemX, ItemY>>, <<>>, <<>>),
      [Result(<<ItemX>>, <<>>, <<>>) EXCEPT !.summary = BoxSummary] }

ErrorComment(message) ==
    << Line("text", FALSE, "Deploy Checklist Bot: Analysis could not be completed.", message) >>

\* The warning loadConfig returns for a config file it cannot use.
ConfigWarning ==
    << Line("text", FALSE, "Deploy Checklist Bot: Failed to parse config file.",
            "Using default rules instead.") >>

EmptyChecklistBody(message, result) ==
    << Line("h2", FALSE, "Deploy Checklist", ""),
       BOT_MARKER,
       Line("text", FALSE, message, ""),
       Line("quote", FALSE, result.summary, "") >>

\* checklistBody.includes("- [ ]"): an unticked checkbox line, or the
\* characters anywhere else in the text.
HasUnchecked(text) ==
    \E i \in 1..Len(text) :
        \/ text[i].t = "item" /\ ~text[i].chk
        \/ ContainsBox(text[i].a)
        \/ ContainsBox(text[i].b)

NewTask(pr, action, kind, pc) ==
    [pr |-> pr, kind |-> kind, sha |-> ShaOf(head[pr]), pc |-> pc,
     existing |-> None, result |-> None, event |-> "", failed |-> FALSE]

\* findBotComment: the first comment whose body contains the marker.
findBotComment(pr) ==
    LET marked == SelectSeq(comments[pr], LAMBDA c : HasMarker(c.body))
    IN  IF marked = <<>> THEN None ELSE Some(marked[1])

createComment(pr, body) ==
    [comments EXCEPT ![pr] = Append(@, [id |-> Len(@) + 1, body |-> body,
                                        author |-> BotLogin])]

updateComment(pr, id, body) ==
    [comments EXCEPT ![pr][id].body = body]

\* postErrorComment creates the error comment or swallows its own failure;
\* the run ends.
postErrorComment(t, message) ==
    /\ tasks' = [tasks EXCEPT ![t].pc = "done", ![t].failed = TRUE]
    /\ \E posted \in BOOLEAN :
          comments' = IF posted
                      THEN createComment(tasks[t].pr, ErrorComment(message))
                      ELSE comments

\* A call throws outside every try block: the promise of the handler is
\* rejected, nothing is posted.
Reject(t) ==
    /\ faults < MaxFaults
    /\ faults' = faults + 1
    /\ tasks' = [tasks EXCEPT ![t].pc = "rejected", ![t].failed = TRUE]
    /\ UNCHANGED comments

\* Variant: no catch block; the error rejects the promise of the run.
ThrowUncaught(t, message) == Reject(t)

\* A call of the run throws: the handler's catch block logs the error and
\* posts the error comment; the promise of the run is fulfilled.
Throw(t, message) ==
    /\ faults < MaxFaults
    /\ faults' = faults + 1
    /\ postErrorComment(t, message)


(***************************************************************************)
(* utils/debounce.ts                                                       *)
(***************************************************************************)
\* Variant: the existing timer is not cleared.
ClearExistingNoCancel(key) == timers

\* const existing = pending.get(key); if (existing) clearTimeout(existing)
ClearExisting(key) ==
    IF pending[key] # 0 THEN timers \ {pending[key]} ELSE timers

\* debouncePR(key, delayMs, callback): t names the new timer.
debouncePR(key, t) ==
    /\ timers' = ClearExisting(key) \cup {t}
    /\ pending' = [pending EXCEPT ![key] = t]

\* cancelPending(key): clearTimeout(existing) and pending.delete(key) when
\* the key has an entry.
cancelPending(key) ==
    /\ timers' = ClearExisting(key)
    /\ pending' = [pending EXCEPT ![key] = 0]

hasPending(key) == pending[key] # 0

(***************************************************************************)
(* handlers/pull-request.ts                                                *)
(***************************************************************************)
\* Variant: a result without items is posted and blocks like any other.
NewAnalysisRouteEmptyBlocks(result) ==
    IF result = None THEN "error" ELSE "comment"

\* Variant: a null result blocks the PR.
NewAnalysisRouteBlockOnNull(result) ==
    IF result = None THEN "block"
    ELSE IF Len(Get(result).items) = 0 THEN "empty"
    ELSE "comment"

\* What handleNewAnalysis does with the outcome of fetchAndAnalyze.
NewAnalysisRoute(result) ==
    IF result = None THEN "error"
    ELSE IF Len(Get(result).items) = 0 THEN "empty"
    ELSE "comment"

\* Variant: a null result of the re-analysis blocks the PR.
ReanalysisRouteBlockOnNull(result) ==
    IF result = None THEN "block"
    ELSE IF Len(Get(result).items) = 0 THEN "empty"
    ELSE "write"

\* What the debounced body of handleReanalysis does with it.
ReanalysisRoute(result) ==
    IF result = None THEN "error"
    ELSE IF Len(Get(result).items) = 0 THEN "empty"
    ELSE "write"

\* buildDefaultConfig().settings
DefaultSettings ==
    [analyze_drafts |-> FALSE, ignore_authors |-> <<>>, target_branches |-> <<>>]

\* The settings a repository's config file can carry.
SettingsUniverse ==
    [analyze_drafts : BOOLEAN,
     ignore_authors : {<<>>, <<"dependabot[bot]">>},
     target_branches : {<<>>, <<"main">>}]

\* loadConfig: the validated config of the head commit, or the defaults
\* together with a warning when the file does not parse or validate.
LoadedConfigs ==
    {[settings |-> st, warning |-> FALSE] : st \in SettingsUniverse}
    \cup {[settings |-> DefaultSettings, warning |-> TRUE]}

\* The fields of payload.pull_request the filters read.
Payloads == [draft : BOOLEAN, author : {"alice", "dependabot[bot]"}, base : {"main", "dev"}]

\* Variant: an empty target_branches list accepts no base branch.
PassesFiltersEmptyTargetsRejects(p, settings) ==
    /\ ~(p.draft /\ ~settings.analyze_drafts)
    /\ p.author \notin Range(settings.ignore_authors)
    /\ p.base \in Range(settings.target_branches)

\* The three filters of handlePullRequest: drafts, ignored authors,
\* non-target base branches.
PassesFilters(p, settings) ==
    /\ ~(p.draft /\ ~settings.analyze_drafts)
    /\ p.author \notin Range(settings.ignore_authors)
    /\ (Len(settings.target_branches) > 0 => p.base \in Range(settings.target_branches))

\* The pull_request events delivered so far.
PullRequestEvents == {t \in 1..Len(tasks) : tasks[t].kind # "edit"}

\* handlePullRequest: load the config, post its warning, apply the filters
\* and route the event to its sub-handler.  opened, reopened and
\* ready_for_review start handleNewAnalysis, synchronize (a push of a new
\* head commit) calls handleReanalysis, which only arms the timer.  An event
\* that is filtered out starts no run; so does one whose loadConfig or
\* warning post rejects, those calls being outside the handlers' try blocks.
\* The sub-handler the switch of handlePullRequest selects for an event that
\* passed the filters; "ignored" is the default branch.
RouteAction(action) ==
    IF action \in NewAnalysisActions THEN "new"
    ELSE IF action = "synchronize" THEN "re"
    ELSE "ignored"

\* The body of handlePullRequest for one event: payload p, the outcome of
\* loadConfig, and whether loadConfig or the warning post rejects.
handlePullRequestBody(pr, action, p, loaded, rejected) ==
    LET t == Len(tasks) + 1
        pushed == IF action = "synchronize"
                  THEN [head EXCEPT ![pr] = @ + 1] ELSE head
        task(kind, pc) == [NewTask(pr, action, kind, pc)
                             EXCEPT !.sha = ShaOf(pushed[pr])]
    IN  /\ head' = pushed
        /\ comments' = IF loaded.warning /\ ~rejected
                       THEN createComment(pr, ConfigWarning)
                       ELSE comments
        /\ IF rejected \/ ~PassesFilters(p, loaded.settings)
                    \/ RouteAction(action) = "ignored"
           THEN /\ tasks' = Append(tasks, task("skipped", "done"))
                /\ UNCHANGED <<pending, timers>>
           ELSE IF RouteAction(action) = "new"
           THEN /\ tasks' = Append(tasks, task("new", "analyze"))
                /\ UNCHANGED <<pending, timers>>
           ELSE /\ tasks' = Append(tasks, task("re", "scheduled"))
                /\ debouncePR(pr, t)
        /\ UNCHANGED <<reviews, edits, faults>>

handlePullRequest(pr, action) ==
    /\ Cardinality(PullRequestEvents) < MaxEvents
    /\ \E p \in Payloads : \E loaded \in LoadedConfigs : \E rejected \in BOOLEAN :
         handlePullRequestBody(pr, action, p, loaded, rejected)
    /\ UNCHANGED <<cl, cf, td, an, hp, mc, bp, rl>>

\* One delivered event and what the handler was given for it.
HpIdle ==
    [stage |-> "idle", action |-> "", rejected |-> FALSE,
     p |-> [draft |-> FALSE, author |-> "alice", base |-> "main"],
     loaded |-> [settings |-> DefaultSettings, warning |-> FALSE]]

\* The timer callback: pending.delete(key), then the debounced body runs to
\* its first suspension, const existingComment = await findBotComment(...).
TimerFires(t) ==
    /\ t \in timers
    /\ timers' = timers \ {t}
    /\ pending' = [pending EXCEPT ![tasks[t].pr] = 0]
    /\ \/ /\ tasks' = [tasks EXCEPT ![t].pc = "analyze",
                                   ![t].existing = findBotComment(tasks[t].pr)]
          /\ UNCHANGED <<comments, faults>>
       \/ Throw(t, "An unexpected error occurred during re-analysis.")
    /\ UNCHANGED <<reviews, head, edits, cl, cf, td, an, hp, mc, bp, rl>>

\* const result = await fetchAndAnalyze(...): throws, returns null or
\* returns a validated result.
Analyze(t) ==
    /\ tasks[t].pc = "analyze"
    /\ \/ Throw(t, "An unexpected error occurred during analysis.")
       \/ \E result \in {None} \cup {Some(r) : r \in SysResults} :
            LET route == IF tasks[t].kind = "new" THEN NewAnalysisRoute(result)
                         ELSE ReanalysisRoute(result)
            IN  IF route = "error"
                THEN /\ postErrorComment(t,
                            IF tasks[t].kind = "new"
                            THEN "Claude analysis failed after multiple retries."
                            ELSE "Re-analysis failed after new commits were pushed.")
                     /\ UNCHANGED faults
                ELSE /\ tasks' = [tasks EXCEPT
                                    ![t].pc = IF route = "block" THEN "dismiss" ELSE route,
                                    ![t].event = IF route = "block" THEN "REQUEST_CHANGES" ELSE "",
                                    ![t].result = result]
                     /\ UNCHANGED <<comments, faults>>
    /\ UNCHANGED <<reviews, pending, timers, head, edits, cl, cf, td, an, hp, mc, bp, rl>>

\* result.items.length === 0: handleNewAnalysis posts the empty checklist
\* when post_empty_checklist is set, handleReanalysis overwrites the existing
\* comment; both then call approvePR.
EmptyResult(t) ==
    /\ tasks[t].pc = "empty"
    /\ LET pr == tasks[t].pr
           r == Get(tasks[t].result)
       IN  \/ /\ tasks[t].kind = "new"
              /\ \E post_empty_checklist \in BOOLEAN :
                   comments' =
                     IF post_empty_checklist
                     THEN createComment(pr, EmptyChecklistBody(
                              "No deploy checklist items identified for this PR.", r))
                     ELSE comments
              /\ tasks' = [tasks EXCEPT ![t].pc = "dismiss", ![t].event = "APPROVE"]
              /\ UNCHANGED faults
           \/ /\ tasks[t].kind = "re"
              /\ comments' =
                   IF IsSome(tasks[t].existing)
                   THEN updateComment(pr, Get(tasks[t].existing).id, EmptyChecklistBody(
                            "No deploy checklist items identified after re-analysis.", r))
                   ELSE comments
              /\ tasks' = [tasks EXCEPT ![t].pc = "dismiss", ![t].event = "APPROVE"]
              /\ UNCHANGED faults
           \/ Throw(t, "An unexpected error occurred during analysis.")
    /\ UNCHANGED <<reviews, pending, timers, head, edits, cl, cf, td, an, hp, mc, bp, rl>>

\* handleNewAnalysis: createComment(generateChecklist(result, pr.head.sha)),
\* then blockPR.
PostChecklist(t) ==
    /\ tasks[t].pc = "comment"
    /\ \/ LET body == generateChecklist(Get(tasks[t].result), tasks[t].sha)
          IN  /\ comments' = createComment(tasks[t].pr, body)
              /\ tasks' = [tasks EXCEPT ![t].pc = "dismiss",
                                        ![t].event = "REQUEST_CHANGES"]
              /\ UNCHANGED faults
       \/ Throw(t, "An unexpected error occurred during analysis.")
    /\ UNCHANGED <<reviews, pending, timers, head, edits, cl, cf, td, an, hp, mc, bp, rl>>

\* The text handleReanalysis merges the new result into: the body of the
\* comment as findBotComment returned it.
MergeSource(t) == Get(tasks[t].existing).body

\* Variant: without a prior document the items are rendered as confirmed.
ReanalysisBodyFreshChecked(t) ==
    LET r == Get(tasks[t].result)
        fresh == generateChecklist(r, tasks[t].sha)
        ticked == [i \in 1..Len(fresh) |->
                     IF fresh[i].t = "item" THEN [fresh[i] EXCEPT !.chk = TRUE]
                     ELSE fresh[i]]
    IN  IF IsSome(tasks[t].existing)
        THEN LET oldState == parseChecklist(Get(tasks[t].existing).body)
             IN  IF IsSome(oldState)
                 THEN mergeChecklist(Get(oldState), r, tasks[t].sha)
                 ELSE ticked
        ELSE ticked

\* handleReanalysis: the merged (or fresh) checklist body.
ReanalysisBody(t) ==
    LET r == Get(tasks[t].result)
    IN  IF IsSome(tasks[t].existing)
        THEN LET oldState == parseChecklist(MergeSource(t))
             IN  IF IsSome(oldState)
                 THEN mergeChecklist(Get(oldState), r, tasks[t].sha)
                 ELSE generateChecklist(r, tasks[t].sha)
        ELSE generateChecklist(r, tasks[t].sha)

\* handleReanalysis: updateComment or createComment, then block or approve
\* by whether "- [ ]" occurs in the body.
WriteChecklist(t) ==
    /\ tasks[t].pc = "write"
    /\ \/ LET body == ReanalysisBody(t)
              pr == tasks[t].pr
          IN  /\ comments' = IF IsSome(tasks[t].existing)
                             THEN updateComment(pr, Get(tasks[t].existing).id, body)
                             ELSE createComment(pr, body)
              /\ tasks' = [tasks EXCEPT
                             ![t].pc = "dismiss",
                             ![t].event = IF HasUnchecked(body)
                                          THEN "REQUEST_CHANGES" ELSE "APPROVE"]
              /\ UNCHANGED faults
       \/ Throw(t, "An unexpected error occurred during re-analysis.")
    /\ UNCHANGED <<reviews, pending, timers, head, edits, cl, cf, td, an, hp, mc, bp, rl>>

(***************************************************************************)
(* services/review-manager.ts                                              *)
(***************************************************************************)
\* Variant: the author of the review is not looked at.
IsStaleAnyAuthor(review) == review.state = "CHANGES_REQUESTED"

\* review.user?.login === botLogin && review.state === "CHANGES_REQUESTED"
IsStale(review) ==
    review.author = BotLogin /\ review.state = "CHANGES_REQUESTED"

\* Variant: no try block; an error of the list or of a dismissal escapes to
\* the caller and the run ends without its review.
dismissStaleReviewsThrows(t) ==
    /\ tasks[t].pc = "dismiss"
    /\ LET pr == tasks[t].pr
           stale == SelectSeq([i \in 1..Len(reviews[pr]) |-> i],
                              LAMBDA i : IsStale(reviews[pr][i]))
       IN  \E n \in 0..Len(stale) :
             /\ reviews' = [reviews EXCEPT ![pr] =
                              [i \in 1..Len(@) |->
                                 IF \E k \in 1..n : stale[k] = i
                                 THEN [@[i] EXCEPT !.state = "DISMISSED"]
                                 ELSE @[i]]]
             /\ tasks' = [tasks EXCEPT
                             ![t].pc = IF n = Len(stale) THEN "review" ELSE "done",
                             ![t].failed = (n < Len(stale))]
    /\ UNCHANGED <<comments, pending, timers, head, edits, faults, cl, cf, td, an, hp, mc, bp, rl>>

\* dismissStaleReviews: dismisses the bot's CHANGES_REQUESTED reviews in
\* list order; an error (of listReviews, getAuthenticated or a dismissReview)
\* ends the loop after n dismissals and is swallowed.
dismissStaleReviews(t) ==
    /\ tasks[t].pc = "dismiss"
    /\ LET pr == tasks[t].pr
           stale == SelectSeq([i \in 1..Len(reviews[pr]) |-> i],
                              LAMBDA i : IsStale(reviews[pr][i]))
       IN  \E n \in 0..Len(stale) :
             reviews' = [reviews EXCEPT ![pr] =
                           [i \in 1..Len(@) |->
                              IF \E k \in 1..n : stale[k] = i
                              THEN [@[i] EXCEPT !.state = "DISMISSED"]
                              ELSE @[i]]]
    /\ tasks' = [tasks EXCEPT ![t].pc = "review"]
    /\ UNCHANGED <<comments, pending, timers, head, edits, faults, cl, cf, td, an, hp, mc, bp, rl>>

ReviewState(event) ==
    IF event = "REQUEST_CHANGES" THEN "CHANGES_REQUESTED" ELSE "APPROVED"

\* blockPR / approvePR: pulls.createReview with the event; a failure is
\* caught by handleNewAnalysis and handleReanalysis, while
\* handleIssueCommentEdited has no try block and lets it escape.
createReview(t) ==
    /\ tasks[t].pc = "review"
    /\ \/ /\ reviews' = [reviews EXCEPT ![tasks[t].pr] =
                           Append(@, [author |-> BotLogin,
                                      event |-> tasks[t].event,
                                      state |-> ReviewState(tasks[t].event),
                                      task |-> t])]
          /\ tasks' = [tasks EXCEPT ![t].pc = "done"]
          /\ UNCHANGED <<comments, faults>>
       \/ /\ IF tasks[t].kind = "edit"
             THEN Reject(t)
             ELSE Throw(t, "An unexpected error occurred during analysis.")
          /\ UNCHANGED reviews
    /\ UNCHANGED <<pending, timers, head, edits, cl, cf, td, an, hp, mc, bp, rl>>

(***************************************************************************)
(* handlers/issue-comment.ts                                               *)
(***************************************************************************)
\* Variant: the PR is approved as soon as one parsed item is checked.
IssueCommentRouteSomeChecked(comment, is_pr) ==
    IF ~HasMarker(comment.body) THEN "skip"
    ELSE IF ~is_pr THEN "skip"
    ELSE IF parseChecklist(comment.body) = None THEN "skip"
    ELSE IF \E k \in 1..Len(Get(parseChecklist(comment.body)).items) :
               Get(parseChecklist(comment.body)).items[k].checked
    THEN "APPROVE" ELSE "REQUEST_CHANGES"

\* What handleIssueCommentEdited does with the payload of the event: it
\* returns early for a body without the marker, for an issue that is not a
\* pull request and for a body parseChecklist returns null for; otherwise
\* approvePR when state.allComplete, blockPR when not.
IssueCommentRoute(comment, is_pr) ==
    IF ~HasMarker(comment.body) THEN "skip"
    ELSE IF ~is_pr THEN "skip"
    ELSE IF parseChecklist(comment.body) = None THEN "skip"
    ELSE IF Get(parseChecklist(comment.body)).allComplete
    THEN "APPROVE" ELSE "REQUEST_CHANGES"

\* handleIssueCommentEdited on the delivery of issue_comment.edited for the
\* comment as the payload carries it: the handler decides before its first
\* suspension, the calls of approvePR or blockPR follow as the steps of the
\* run.
handleIssueCommentEdited(number, comment) ==
    LET route == IssueCommentRoute(comment, number \in PRNumbers)
    IN  tasks' = Append(tasks,
                   [pr |-> number, kind |-> "edit", sha |-> "",
                    pc |-> IF route = "skip" THEN "done" ELSE "dismiss",
                    existing |-> Some(comment), result |-> None,
                    event |-> IF route = "skip" THEN "" ELSE route,
                    failed |-> FALSE])

(***************************************************************************)
(* The users edit comments; the platform delivers issue_comment.edited     *)
(***************************************************************************)
\* The user ticks or unticks a checkbox of a checklist comment.
UserToggle(pr, c, i) ==
    /\ edits < MaxEdits
    /\ c \in 1..Len(comments[pr])
    /\ HasMarker(comments[pr][c].body)
    /\ i \in 1..Len(comments[pr][c].body)
    /\ comments[pr][c].body[i].t = "item"
    /\ comments' = [comments EXCEPT ![pr][c].body[i].chk = ~@]
    /\ edits' = edits + 1
    /\ handleIssueCommentEdited(pr, comments'[pr][c])
    /\ UNCHANGED <<reviews, pending, timers, head, faults, cl, cf, td, an, hp, mc, bp, rl>>

\* A checklist text as any account can type it: the marker and one item,
\* its box ticked or not.
TypedChecklist(checked) ==
    LET text == generateChecklist(Result(<<ItemX>>, <<>>, <<>>), "abc123")
    IN  [i \in 1..Len(text) |->
           IF text[i].t = "item" THEN [text[i] EXCEPT !.chk = checked] ELSE text[i]]

\* The texts a user gives a comment of their own.
UserBodies == {PlainComment, TypedChecklist(TRUE), TypedChecklist(FALSE)}

\* A user edits a comment of their own, on a pull request or on an issue,
\* to the text body.
UserEditsOwnComment(number, body) ==
    /\ edits < MaxEdits
    /\ edits' = edits + 1
    /\ LET comment == [id |-> IF number \in PRNumbers
                              THEN Len(comments[number]) + 1 ELSE 1,
                       body |-> body, author |-> "alice"]
       IN  /\ comments' = IF number \in PRNumbers
                          THEN [comments EXCEPT ![number] = Append(@, comment)]
                          ELSE comments
           /\ handleIssueCommentEdited(number, comment)
    /\ UNCHANGED <<reviews, pending, timers, head, faults, cl, cf, td, an, hp, mc, bp, rl>>

Init ==
    /\ comments = [pr \in PRNumbers |-> <<>>]
    /\ reviews = [pr \in PRNumbers |-> <<>>]
    /\ pending = [pr \in PRNumbers |-> 0]
    /\ timers = {}
    /\ tasks = <<>>
    /\ head = [pr \in PRNumbers |-> 1]
    /\ edits = 0
    /\ faults = 0
    /\ hp = HpIdle
    /\ mc = McIdle
    /\ bp = BpIdle
    /\ rl = RlIdle
    /\ cl = ClIdle
    /\ cf = CfIdle
    /\ td = TdIdle
    /\ an = AnIdle

Next ==
    \/ \E pr \in PRNumbers :
         \E action \in NewAnalysisActions \cup {"synchronize"} :
            handlePullRequest(pr, action)
    \/ \E t \in 1..Len(tasks) : TimerFires(t)
    \/ \E t \in 1..Len(tasks) : Analyze(t)
    \/ \E t \in 1..Len(tasks) : EmptyResult(t)
    \/ \E t \in 1..Len(tasks) : PostChecklist(t)
    \/ \E t \in 1..Len(tasks) : WriteChecklist(t)
    \/ \E t \in 1..Len(tasks) : dismissStaleReviews(t)
    \/ \E t \in 1..Len(tasks) : createReview(t)
    \/ \E pr \in PRNumbers : \E c \in 1..(3 * MaxEvents) : \E i \in 1..(4 + 3 * MaxItems) :
         UserToggle(pr, c, i)

Spec == Init /\ [][Next]_vars


(***************************************************************************)
(* The checklist engine on its own: render, user edits, parse, merge       *)
(***************************************************************************)
SysIdle ==
    /\ comments = [pr \in PRNumbers |-> <<>>]
    /\ reviews = [pr \in PRNumbers |-> <<>>]
    /\ pending = [pr \in PRNumbers |-> 0]
    /\ timers = {}
    /\ tasks = <<>>
    /\ head = [pr \in PRNumbers |-> 1]
    /\ edits = 0
    /\ faults = 0

sysvars == <<comments, reviews, pending, timers, tasks, head, edits, faults>>

InitChecklist ==
    /\ SysIdle
    /\ hp = HpIdle
    /\ mc = McIdle
    /\ bp = BpIdle
    /\ rl = RlIdle
    /\ cf = CfIdle
    /\ td = TdIdle
    /\ an = AnIdle
    /\ \/ \E result \in Results : \E sha \in Shas :
            cl = [ClIdle EXCEPT !.stage = "input", !.result = result, !.sha = sha]
       \/ cl = [ClIdle EXCEPT !.stage = "text", !.text = PlainComment]

ClGenerate ==
    /\ cl.stage = "input"
    /\ cl' = [cl EXCEPT !.stage = "text",
                        !.text = generateChecklist(cl.result, cl.sha)]
    /\ UNCHANGED <<sysvars, hp, mc, cf, td, an, bp, rl>>

\* The user ticks or unticks the checkbox on line i of the document.
ClUserToggle(i) ==
    /\ cl.stage = "text"
    /\ i \in 1..Len(cl.text)
    /\ cl.text[i].t = "item"
    /\ cl' = [cl EXCEPT !.text[i].chk = ~@]
    /\ UNCHANGED <<sysvars, hp, mc, cf, td, an, bp, rl>>

ClParse ==
    /\ cl.stage = "text"
    /\ cl' = [cl EXCEPT !.stage = "parsed", !.state = parseChecklist(cl.text)]
    /\ UNCHANGED <<sysvars, hp, mc, cf, td, an, bp, rl>>

ClMerge(newResult, newSha) ==
    /\ cl.stage = "parsed"
    /\ IsSome(cl.state)
    /\ cl' = [cl EXCEPT !.stage = "merged", !.newResult = newResult,
                        !.newSha = newSha,
                        !.merged = mergeChecklist(Get(cl.state), newResult, newSha)]
    /\ UNCHANGED <<sysvars, hp, mc, cf, td, an, bp, rl>>

NextChecklist ==
    \/ ClGenerate
    \/ \E i \in 1..(5 + 3 * MaxItems) : ClUserToggle(i)
    \/ ClParse
    \/ \E newResult \in Results : \E newSha \in Shas : ClMerge(newResult, newSha)

SpecChecklist == InitChecklist /\ [][NextChecklist]_vars


(***************************************************************************)
(* parseChecklist over documents a user has damaged                        *)
(***************************************************************************)
\* The text without its line i.
DeleteLine(text, i) ==
    [k \in 1..(Len(text) - 1) |-> IF k < i THEN text[k] ELSE text[k + 1]]

\* The text with its line i overwritten by free text.
GarbleLine(text, i) ==
    [text EXCEPT ![i] = Line("text", FALSE, "???", "")]

\* A generated document as it is, with one line deleted or with one line
\* overwritten.
DamagedTexts(text) ==
    {text} \cup {DeleteLine(text, i) : i \in 1..Len(text)}
           \cup {GarbleLine(text, i) : i \in 1..Len(text)}

InitParse ==
    /\ SysIdle
    /\ hp = HpIdle
    /\ mc = McIdle
    /\ bp = BpIdle
    /\ rl = RlIdle
    /\ cf = CfIdle
    /\ td = TdIdle
    /\ an = AnIdle
    /\ \/ \E result \in Results : \E sha \in Shas :
            \E text \in DamagedTexts(generateChecklist(result, sha)) :
               cl = [ClIdle EXCEPT !.stage = "text", !.result = result,
                                   !.sha = sha, !.text = text]
       \/ cl = [ClIdle EXCEPT !.stage = "text", !.text = PlainComment]

NextParse ==
    \/ \E i \in 1..(5 + 3 * MaxItems) : ClUserToggle(i)
    \/ ClParse

SpecParse == InitParse /\ [][NextParse]_vars

(***************************************************************************)
(* The classifier on its own                                               *)
(***************************************************************************)
InitClassify ==
    /\ SysIdle
    /\ hp = HpIdle
    /\ mc = McIdle
    /\ bp = BpIdle
    /\ rl = RlIdle
    /\ cl = ClIdle
    /\ td = TdIdle
    /\ an = AnIdle
    /\ \E files \in FileLists : \E diff \in DiffContents :
          cf = [CfIdle EXCEPT !.stage = "input", !.files = files, !.diff = diff]

CfDetect ==
    /\ cf.stage = "input"
    /\ cf' = IF detectActiveSkillsThrows(cf.files, cf.diff)
             THEN [cf EXCEPT !.stage = "threw", !.threw = TRUE]
             ELSE [cf EXCEPT !.stage = "detected",
                             !.active = detectActiveSkills(cf.files, cf.diff)]
    /\ UNCHANGED <<sysvars, hp, mc, cl, td, an, bp, rl>>

CfUncovered ==
    /\ cf.stage = "detected"
    /\ cf' = [cf EXCEPT !.stage = "classified",
                        !.uncovered = computeUncoveredFiles(cf.files, cf.active)]
    /\ UNCHANGED <<sysvars, hp, mc, cl, td, an, bp, rl>>

NextClassify == CfDetect \/ CfUncovered

SpecClassify == InitClassify /\ [][NextClassify]_vars

(***************************************************************************)
(* truncateDiff on its own                                                 *)
(***************************************************************************)
InitTruncate ==
    /\ SysIdle
    /\ hp = HpIdle
    /\ mc = McIdle
    /\ bp = BpIdle
    /\ rl = RlIdle
    /\ cl = ClIdle
    /\ cf = CfIdle
    /\ an = AnIdle
    /\ \E diff \in Diffs : \E maxSize \in MaxSizes : \E rules \in RuleSets :
          td = [TdIdle EXCEPT !.stage = "input", !.diff = diff,
                              !.maxSize = maxSize, !.rules = rules]

TdTruncate ==
    /\ td.stage = "input"
    /\ td' = [td EXCEPT !.stage = "done",
                        !.out = truncateDiff(td.diff, td.maxSize, td.rules)]
    /\ UNCHANGED <<sysvars, hp, mc, cl, cf, an, bp, rl>>

NextTruncate == TdTruncate

SpecTruncate == InitTruncate /\ [][NextTruncate]_vars

(***************************************************************************)
(* analyzeDiff on its own.  outcome is "result", "null" or "threw".        *)
(***************************************************************************)
InitAnalyze ==
    /\ SysIdle
    /\ hp = HpIdle
    /\ mc = McIdle
    /\ bp = BpIdle
    /\ rl = RlIdle
    /\ cl = ClIdle
    /\ cf = CfIdle
    /\ td = TdIdle
    /\ \E files \in FileLists : \E diff \in DiffContents :
          an = [AnIdle EXCEPT !.stage = "start", !.files = files, !.diff = diff]

AnReturn(outcome, failure, result) ==
    an' = [an EXCEPT !.stage = "done", !.outcome = outcome, !.failure = failure,
                     !.result = result]

\* createAnthropicClient(): new Anthropic() throws when no API key is
\* configured; the call is before the try block.
AnCreateClient ==
    /\ an.stage = "start"
    /\ \/ an' = [an EXCEPT !.stage = "client"]
       \/ AnReturn("threw", "authentication failure", None)
    /\ UNCHANGED <<sysvars, hp, mc, cl, cf, td, bp, rl>>

\* extractFilesFromDiff ... truncateDiff (config.rules being the default
\* rules), then await fetchTriggeredFileContents: a 404 skips the file, any other error of
\* getContent is rethrown, and the call is before the try block.
AnGatherInputs ==
    /\ an.stage = "client"
    /\ LET activeSkills == detectActiveSkills(an.files, an.diff)
           allRulesForTruncation == skillsToRules(activeSkills) \o DEFAULT_RULES
           wanted == filesToFetch(allRulesForTruncation, an.files)
       IN  \/ \E notFound \in SUBSET (1..Len(wanted)) :
                an' = [an EXCEPT !.stage = "inputs",
                                 !.fetched = SelectSeq(wanted,
                                     LAMBDA f : \A i \in notFound : wanted[i] # f)]
           \/ /\ Len(wanted) > 0
              /\ AnReturn("threw", "failure while gathering inputs", None)
    /\ UNCHANGED <<sysvars, hp, mc, cl, cf, td, bp, rl>>

\* The try block: messages.create, the tool_use block, the schema.
AnCallModel ==
    /\ an.stage = "inputs"
    /\ \/ \E failure \in CallFailures : AnReturn("null", failure, None)
       \/ \E reply \in Replies :
            LET parsed == AnalysisResultSchemaParse(reply.input)
            IN  an' = [an EXCEPT
                         !.stage = "done",
                         !.reply = Some(reply),
                         !.outcome = IF reply.tool_use /\ IsSome(parsed)
                                     THEN "result" ELSE "null",
                         !.failure = IF ~reply.tool_use THEN "missing structured block"
                                     ELSE IF ~IsSome(parsed) THEN "schema validation"
                                     ELSE "",
                         !.result = IF reply.tool_use THEN parsed ELSE None]
    /\ UNCHANGED <<sysvars, hp, mc, cl, cf, td, bp, rl>>

NextAnalyze == AnCreateClient \/ AnGatherInputs \/ AnCallModel

SpecAnalyze == InitAnalyze /\ [][NextAnalyze]_vars


(***************************************************************************)
(* Comment edits on their own: PRs whose first analysis has ended, users   *)
(* who edit the bot's comment or a comment of their own                    *)
(***************************************************************************)
\* What handleNewAnalysis left on a PR: nothing yet, or the checklist of a
\* result with items and the REQUEST_CHANGES review.
AnalysedResults == {None} \cup {Some(r) : r \in {x \in SysResults : Len(x.items) >= 1}}

\* The finished run of handleNewAnalysis behind such a PR.
FinishedRun(pr, r) ==
    [pr |-> pr, kind |-> "new", sha |-> ShaOf(1), pc |-> "done",
     existing |-> None, result |-> Some(r), event |-> "REQUEST_CHANGES",
     failed |-> FALSE]

InitIssueComment ==
    /\ \E analysed \in [PRNumbers -> AnalysedResults] :
          LET prs == SelectSeq(<<1, 2>>, LAMBDA pr : IsSome(analysed[pr]))
              run(pr) == CHOOSE t \in 1..Len(prs) : prs[t] = pr
          IN  /\ tasks = [t \in 1..Len(prs) |->
                             FinishedRun(prs[t], Get(analysed[prs[t]]))]
              /\ comments = [pr \in PRNumbers |->
                    IF IsSome(analysed[pr])
                    THEN << [id |-> 1,
                             body |-> generateChecklist(Get(analysed[pr]), ShaOf(1)),
                             author |-> BotLogin] >>
                    ELSE <<>>]
              /\ reviews = [pr \in PRNumbers |->
                    IF IsSome(analysed[pr])
                    THEN << [author |-> BotLogin, event |-> "REQUEST_CHANGES",
                             state |-> "CHANGES_REQUESTED", task |-> run(pr)] >>
                    ELSE <<>>]
    /\ pending = [pr \in PRNumbers |-> 0]
    /\ timers = {}
    /\ head = [pr \in PRNumbers |-> 1]
    /\ edits = 0
    /\ faults = 0
    /\ hp = HpIdle
    /\ mc = McIdle
    /\ bp = BpIdle
    /\ rl = RlIdle
    /\ cl = ClIdle
    /\ cf = CfIdle
    /\ td = TdIdle
    /\ an = AnIdle

NextIssueComment ==
    \/ \E pr \in PRNumbers : \E c \in 1..(3 * MaxEvents) : \E i \in 1..(4 + 3 * MaxItems) :
         UserToggle(pr, c, i)
    \/ \E number \in PRNumbers \cup IssueNumbers : \E body \in UserBodies :
         UserEditsOwnComment(number, body)
    \/ \E t \in 1..Len(tasks) : dismissStaleReviews(t)
    \/ \E t \in 1..Len(tasks) : createReview(t)

SpecIssueComment == InitIssueComment /\ [][NextIssueComment]_vars


(***************************************************************************)
(* loadConfig on its own: the rules of a repository's config file          *)
(***************************************************************************)
MaxUserRules == 3

UserRule(id, paths) ==
    [id |-> id, paths |-> paths, missing_companion |-> <<>>,
     include_full_files |-> FALSE]

\* Rules a config file can carry: two that take the id of a built-in rule,
\* one of them in two versions, and two with ids of their own.
UserRuleUniverse ==
    { UserRule("default-env", <<Under("config")>>),
      UserRule("default-env", <<Under("env")>>),
      UserRule("default-ci", <<Under("ci")>>),
      UserRule("api-contract", <<Under("api")>>),
      UserRule("terraform", <<Under("infra")>>) }

ConfigFiles == {"absent", "empty", "invalid", "valid"}

InitConfig ==
    /\ SysIdle
    /\ hp = HpIdle
    /\ bp = BpIdle
    /\ rl = RlIdle
    /\ cl = ClIdle
    /\ cf = CfIdle
    /\ td = TdIdle
    /\ an = AnIdle
    /\ \E file \in ConfigFiles : \E rules \in SeqUpTo(UserRuleUniverse, MaxUserRules) :
          /\ (file # "valid" => rules = <<>>)
          /\ mc = [McIdle EXCEPT !.stage = "input", !.file = file, !.rules = rules]

McLoadConfig ==
    /\ mc.stage = "input"
    /\ mc' = [mc EXCEPT !.stage = "loaded",
                        !.merged = loadConfigRules(mc.file, mc.rules).rules,
                        !.warning = loadConfigRules(mc.file, mc.rules).warning]
    /\ UNCHANGED <<sysvars, hp, cl, cf, td, an, bp, rl>>

NextConfig == McLoadConfig

SpecConfig == InitConfig /\ [][NextConfig]_vars


(***************************************************************************)
(* blockPR and approvePR on a PR that already carries reviews              *)
(***************************************************************************)
MaxReviews == 3

\* A review that was on the PR before the run: of the bot (an earlier run)
\* or of a human reviewer, in any state.
PriorReview(author, state) ==
    [author |-> author,
     event |-> IF state = "APPROVED" THEN "APPROVE"
               ELSE IF state = "COMMENTED" THEN "COMMENT" ELSE "REQUEST_CHANGES",
     state |-> state, task |-> 0]

PriorReviews ==
    { PriorReview(author, state) :
        author \in {BotLogin, "human-reviewer"},
        state \in {"CHANGES_REQUESTED", "APPROVED", "DISMISSED", "COMMENTED"} }

\* A run of handleNewAnalysis that is about to call blockPR (its checklist
\* is posted) or approvePR (its result has no items).
ReviewingRun(event) ==
    LET r == IF event = "APPROVE" THEN Result(<<>>, <<>>, <<>>)
             ELSE Result(<<ItemX>>, <<>>, <<>>)
    IN  [pr |-> 1, kind |-> "new", sha |-> ShaOf(1), pc |-> "dismiss",
         existing |-> None, result |-> Some(r), event |-> event,
         failed |-> FALSE]

InitReview ==
    /\ \E prior \in SeqUpTo(PriorReviews, MaxReviews) :
       \E event \in {"APPROVE", "REQUEST_CHANGES"} :
          /\ reviews = [pr \in PRNumbers |-> IF pr = 1 THEN prior ELSE <<>>]
          /\ tasks = << ReviewingRun(event) >>
          /\ comments = [pr \in PRNumbers |->
                IF pr = 1 /\ event = "REQUEST_CHANGES"
                THEN << [id |-> 1,
                         body |-> generateChecklist(Result(<<ItemX>>, <<>>, <<>>), ShaOf(1)),
                         author |-> BotLogin] >>
                ELSE <<>>]
    /\ pending = [pr \in PRNumbers |-> 0]
    /\ timers = {}
    /\ head = [pr \in PRNumbers |-> 1]
    /\ edits = 0
    /\ faults = 0
    /\ hp = HpIdle
    /\ mc = McIdle
    /\ bp = BpIdle
    /\ rl = RlIdle
    /\ cl = ClIdle
    /\ cf = CfIdle
    /\ td = TdIdle
    /\ an = AnIdle

NextReview ==
    \/ \E t \in 1..Len(tasks) : dismissStaleReviews(t)
    \/ \E t \in 1..Len(tasks) : createReview(t)

SpecReview == InitReview /\ [][NextReview]_vars


(***************************************************************************)
(* One pull_request event through handlePullRequest, and the run it starts *)
(***************************************************************************)
\* The actions a pull_request delivery can carry; the app subscribes to the
\* first four, the handler's switch has a default branch for any other.
PullRequestActions == NewAnalysisActions \cup {"synchronize", "closed"}

InitFilter ==
    /\ comments = [pr \in PRNumbers |-> <<>>]
    /\ reviews = [pr \in PRNumbers |-> <<>>]
    /\ pending = [pr \in PRNumbers |-> 0]
    /\ timers = {}
    /\ tasks = <<>>
    /\ head = [pr \in PRNumbers |-> 1]
    /\ edits = 0
    /\ faults = 0
    /\ cl = ClIdle
    /\ cf = CfIdle
    /\ td = TdIdle
    /\ an = AnIdle
    /\ mc = McIdle
    /\ bp = BpIdle
    /\ rl = RlIdle
    /\ \E action \in PullRequestActions : \E p \in Payloads : \E loaded \in LoadedConfigs :
          hp = [HpIdle EXCEPT !.stage = "input", !.action = action, !.p = p,
                              !.loaded = loaded]

HpDeliver ==
    /\ hp.stage = "input"
    /\ \E rejected \in BOOLEAN :
          /\ handlePullRequestBody(1, hp.action, hp.p, hp.loaded, rejected)
          /\ hp' = [hp EXCEPT !.stage = "delivered", !.rejected = rejected]
    /\ UNCHANGED <<cl, cf, td, an, mc, bp, rl>>

NextFilter ==
    \/ HpDeliver
    \/ \E t \in 1..Len(tasks) : TimerFires(t)
    \/ \E t \in 1..Len(tasks) : Analyze(t)
    \/ \E t \in 1..Len(tasks) : EmptyResult(t)
    \/ \E t \in 1..Len(tasks) : PostChecklist(t)
    \/ \E t \in 1..Len(tasks) : WriteChecklist(t)
    \/ \E t \in 1..Len(tasks) : dismissStaleReviews(t)
    \/ \E t \in 1..Len(tasks) : createReview(t)

SpecFilter == InitFilter /\ [][NextFilter]_vars


(***************************************************************************)
(* buildUserPrompt on its own                                              *)
(***************************************************************************)
\* config.context: absent, empty, or a text of the repository's owner.
Contexts == {None, Some(""), Some("We use Flyway, rollbacks are automatic")}

\* fileContents: not passed, an empty Map, or the content of one file.
FileContentMaps == {None, Some(<<>>), Some(<<"src/models/user.ts">>)}

InitPrompt ==
    /\ SysIdle
    /\ hp = HpIdle
    /\ mc = McIdle
    /\ cl = ClIdle
    /\ cf = CfIdle
    /\ td = TdIdle
    /\ an = AnIdle
    /\ rl = RlIdle
    /\ \E activeSkills \in {<<>>, <<SKILLS[1]>>, <<SKILLS[1], SKILLS[2]>>} :
       \E rules \in {<<>>, <<DEFAULT_RULES[1]>>, DEFAULT_RULES} :
       \E context \in Contexts :
       \E body \in {"", "Adds the users table"} :
       \E diff \in {"", "diff --git a/src/models/user.ts b/src/models/user.ts"} :
       \E uncoveredFiles \in {<<>>, <<"src/internal-tool/scheduler.ts">>} :
       \E fileContents \in FileContentMaps :
          bp = [BpIdle EXCEPT !.stage = "input", !.activeSkills = activeSkills,
                              !.rules = rules, !.context = context, !.body = body,
                              !.diff = diff, !.uncoveredFiles = uncoveredFiles,
                              !.fileContents = fileContents]

BpBuild ==
    /\ bp.stage = "input"
    /\ bp' = [bp EXCEPT
                !.stage = "built",
                !.out = buildUserPrompt([rules |-> bp.rules, context |-> bp.context],
                                        [title |-> "Add users", body |-> bp.body],
                                        bp.diff, bp.activeSkills, bp.uncoveredFiles,
                                        bp.fileContents)]
    /\ UNCHANGED <<sysvars, hp, mc, cl, cf, td, an, rl>>

NextPrompt == BpBuild

SpecPrompt == InitPrompt /\ [][NextPrompt]_vars


(***************************************************************************)
(* The retry loop of the text-reply analyzeDiff on its own, entered with   *)
(* the client made and the inputs gathered                                 *)
(***************************************************************************)
InitRetry ==
    /\ SysIdle
    /\ hp = HpIdle
    /\ mc = McIdle
    /\ cl = ClIdle
    /\ cf = CfIdle
    /\ td = TdIdle
    /\ an = AnIdle
    /\ bp = BpIdle
    /\ rl = [RlIdle EXCEPT !.stage = "loop"]

\* One pass of for (let attempt = 0; attempt <= MAX_RETRIES; attempt++):
\* the prompt is built with isRetry = attempt > 0 and sent; a reply that
\* validates is returned; anything thrown is caught, logged, and breaks the
\* loop when it is unrecoverable.
RlAttempt ==
    /\ rl.stage = "loop"
    /\ rl.attempt <= MAX_RETRIES
    /\ LET isRetry == rl.attempt > 0
           sent == Append(rl.sent, isRetry)
           Caught(message) ==
               [rl EXCEPT !.sent = sent,
                          !.warned = Append(rl.warned, message),
                          !.attempt = IF IsUnrecoverable(message) THEN @ ELSE @ + 1,
                          !.stage = IF \/ IsUnrecoverable(message)
                                       \/ rl.attempt + 1 > MAX_RETRIES
                                    THEN "failed" ELSE "loop"]
       IN  \/ \E error \in CreateErrors : rl' = Caught(error)
           \/ \E textBlock \in TextBlocks :
                LET read == ReadReply(textBlock)
                IN  rl' = IF read.threw
                          THEN Caught(read.message)
                          ELSE [rl EXCEPT !.sent = sent, !.stage = "done",
                                          !.outcome = "result",
                                          !.result = read.result]
    /\ UNCHANGED <<sysvars, hp, mc, cl, cf, td, an, bp>>

\* After the loop: log.error and return null.
RlGiveUp ==
    /\ rl.stage = "failed"
    /\ rl' = [rl EXCEPT !.stage = "done", !.outcome = "null"]
    /\ UNCHANGED <<sysvars, hp, mc, cl, cf, td, an, bp>>

NextRetry == RlAttempt \/ RlGiveUp

SpecRetry == InitRetry /\ [][NextRetry]_vars

\* Every await of the loop settles: the client gives each request a
\* timeout, so a pass that can be taken is taken.
SpecRetryFair == SpecRetry /\ WF_vars(NextRetry)


(***************************************************************************)
(* utils/debounce.ts on its own: callers that debounce and cancel, timers  *)
(* that fire, callbacks that run for a while.  A task is one call of       *)
(* debouncePR; its pc is "timer" from the call on, "running" from the      *)
(* moment its timer fires, "done" when its callback has settled.           *)
(***************************************************************************)
MaxCalls == 4

InitDebounce ==
    /\ SysIdle
    /\ hp = HpIdle
    /\ mc = McIdle
    /\ cl = ClIdle
    /\ cf = CfIdle
    /\ td = TdIdle
    /\ an = AnIdle
    /\ bp = BpIdle
    /\ rl = RlIdle

DbDebounce(key) ==
    /\ Len(tasks) < MaxCalls
    /\ tasks' = Append(tasks, NewTask(key, "synchronize", "re", "timer"))
    /\ debouncePR(key, Len(tasks) + 1)
    /\ UNCHANGED <<comments, reviews, head, edits, faults, cl, cf, td, an, hp, mc, bp, rl>>

DbCancel(key) ==
    /\ cancelPending(key)
    /\ UNCHANGED <<comments, reviews, tasks, head, edits, faults, cl, cf, td, an, hp, mc, bp, rl>>

\* The function given to setTimeout: pending.delete(key), then the callback
\* is called.
DbFire(t) ==
    /\ t \in timers
    /\ timers' = timers \ {t}
    /\ pending' = [pending EXCEPT ![tasks[t].pr] = 0]
    /\ tasks' = [tasks EXCEPT ![t].pc = "running"]
    /\ UNCHANGED <<comments, reviews, head, edits, faults, cl, cf, td, an, hp, mc, bp, rl>>

\* The promise of the callback settles.
DbSettle(t) ==
    /\ tasks[t].pc = "running"
    /\ tasks' = [tasks EXCEPT ![t].pc = "done"]
    /\ UNCHANGED <<comments, reviews, pending, timers, head, edits, faults, cl, cf, td, an, hp, mc, bp, rl>>

NextDebounce ==
    \/ \E key \in PRNumbers : DbDebounce(key)
    \/ \E key \in PRNumbers : DbCancel(key)
    \/ \E t \in 1..Len(tasks) : DbFire(t)
    \/ \E t \in 1..Len(tasks) : DbSettle(t)

SpecDebounce == InitDebounce /\ [][NextDebounce]_vars


(***************************************************************************)
(* Pushes to a PR that already carries its checklist: the first analysis   *)
(* has posted the document for commit 1, the user may have ticked items,   *)
(* and the bot's last review agrees with the document.  From there:        *)
(* synchronize events, their debounced re-analyses, and edits of the       *)
(* document.                                                               *)
(***************************************************************************)
\* The document of the first analysis with the item lines in ticks ticked.
TickedChecklist(result, ticks) ==
    LET fresh == generateChecklist(result, ShaOf(1))
    IN  [i \in 1..Len(fresh) |->
           IF i \in ticks THEN [fresh[i] EXCEPT !.chk = TRUE] ELSE fresh[i]]

ItemRows(text) == {i \in 1..Len(text) : text[i].t = "item"}

InitReanalysis ==
    /\ \E r \in {Result(<<ItemX>>, <<>>, <<>>)} :
       \E ticks \in SUBSET ItemRows(generateChecklist(r, ShaOf(1))) :
          LET body == TickedChecklist(r, ticks)
          IN  /\ comments = [pr \in PRNumbers |->
                    IF pr = 1
                    THEN << [id |-> 1, body |-> body, author |-> BotLogin] >>
                    ELSE <<>>]
              /\ reviews = [pr \in PRNumbers |->
                    IF pr # 1 THEN <<>>
                    ELSE IF ticks = ItemRows(body)
                    THEN << PriorReview(BotLogin, "DISMISSED"),
                            PriorReview(BotLogin, "APPROVED") >>
                    ELSE << PriorReview(BotLogin, "CHANGES_REQUESTED") >>]
    /\ pending = [pr \in PRNumbers |-> 0]
    /\ timers = {}
    /\ tasks = <<>>
    /\ head = [pr \in PRNumbers |-> 1]
    /\ edits = 0
    /\ faults = 0
    /\ hp = HpIdle
    /\ mc = McIdle
    /\ bp = BpIdle
    /\ rl = RlIdle
    /\ cl = ClIdle
    /\ cf = CfIdle
    /\ td = TdIdle
    /\ an = AnIdle

NextReanalysis ==
    \/ handlePullRequest(1, "synchronize")
    \/ \E t \in 1..Len(tasks) : TimerFires(t)
    \/ \E t \in 1..Len(tasks) : Analyze(t)
    \/ \E t \in 1..Len(tasks) : EmptyResult(t)
    \/ \E t \in 1..Len(tasks) : WriteChecklist(t)
    \/ \E t \in 1..Len(tasks) : dismissStaleReviews(t)
    \/ \E t \in 1..Len(tasks) : createReview(t)
    \/ \E i \in 1..(4 + 3 * MaxItems) : UserToggle(1, 1, i)

SpecReanalysis == InitReanalysis /\ [][NextReanalysis]_vars


(***************************************************************************)
(* Properties                                                              *)
(***************************************************************************)
\* The checkbox rows of a document: [key, checked, item] per ITEM_REGEX match.
Rows(text) ==
    [k \in 1..Len(ItemMatches(text)) |->
        LET i == ItemMatches(text)[k]
        IN  [key |-> <<text[i + 2].a, text[i + 1].a>>, checked |-> text[i].chk]]

KeysOf(items) == {ItemKey(items[i]) : i \in 1..Len(items)}

AllKeys == {ItemKey(it) : it \in ItemUniverse}

IsErrorComment(c) ==
    Len(c.body) = 1 /\ c.body[1].t = "text"
    /\ c.body[1].a = "Deploy Checklist Bot: Analysis could not be completed."

\* C1: fail-open.  Every REQUEST_CHANGES review of handleNewAnalysis and of
\* handleReanalysis was created by a run that did
\* not fail (no null result, no throw) and whose analysis returned a result
\* with at least one item; a failed run has created no REQUEST_CHANGES review.
C1_FailOpen ==
    \A pr \in PRNumbers : \A i \in 1..Len(reviews[pr]) :
        ( /\ reviews[pr][i].event = "REQUEST_CHANGES"
          /\ tasks[reviews[pr][i].task].kind \in {"new", "re"} ) =>
            LET t == reviews[pr][i].task
            IN  /\ ~tasks[t].failed
                /\ IsSome(tasks[t].result)
                /\ Len(Get(tasks[t].result).items) >= 1

\* A run failed, its error comment is on the PR.
C1_Witness ==
    \E t \in 1..Len(tasks) :
        /\ tasks[t].failed
        /\ tasks[t].pc = "done"
        /\ \E i \in 1..Len(comments[tasks[t].pr]) :
              IsErrorComment(comments[tasks[t].pr][i])

C3_CheckedSurvivesWrite ==
    [][\A t \in 1..Len(tasks) :
          ( /\ tasks[t].pc = "write"
            /\ tasks'[t].pc = "dismiss"
            /\ IsSome(tasks[t].existing) ) =>
          LET pr == tasks[t].pr
              id == Get(tasks[t].existing).id
              before == Rows(comments[pr][id].body)
              after == Rows(comments'[pr][id].body)
          IN  \A k \in 1..Len(before) :
                ( /\ before[k].checked
                  /\ before[k].key \in KeysOf(Get(tasks[t].result).items) ) =>
                \A j \in 1..Len(after) :
                    after[j].key = before[k].key => after[j].checked]_vars

\* C4: the merged document has exactly one checkbox row per item of the new
\* result (as multisets of (rule_id, description) pairs), so no item that is
\* only in the old state appears, and it embeds the new sha and no other.
C4_MergeExactlyNewItems ==
    cl.stage = "merged" =>
        /\ \A key \in AllKeys :
              Count(Rows(cl.merged), LAMBDA r : r.key = key)
              = Count(cl.newResult.items, LAMBDA it : ItemKey(it) = key)
        /\ Len(Rows(cl.merged)) = Len(cl.newResult.items)
        /\ Count(cl.merged, LAMBDA l : l.t = "item") = Len(cl.newResult.items)
        /\ \A i \in 1..Len(cl.merged) :
              cl.merged[i].t = "sha" => cl.merged[i].a = cl.newSha
        /\ Count(cl.merged, LAMBDA l : l.t = "sha") = 1

\* A merge that drops an old item and changes the sha.
C4_Witness ==
    /\ cl.stage = "merged"
    /\ cl.newSha # Get(cl.state).sha
    /\ \E j \in 1..Len(Get(cl.state).items) :
          ItemKey(Get(cl.state).items[j].item) \notin KeysOf(cl.newResult.items)
    /\ Len(cl.newResult.items) >= 1

\* C5 as stated: only the most recent update's callback ever runs; no
\* callback has run for an update that has a later update of the same key.
C5_OnlyMostRecentEverRuns ==
    \A t \in 1..Len(tasks) :
        (tasks[t].kind = "re" /\ tasks[t].pc # "scheduled") =>
            ~\E u \in (t + 1)..Len(tasks) :
                tasks[u].kind = "re" /\ tasks[u].pr = tasks[t].pr

\* C5 amended: a callback that starts to run is that of the most recent
\* debouncePR call for its key, and a debouncePR call leaves its own timer
\* as the only armed timer of the key; so a callback whose timer was still
\* pending when a later update of the same key arrived never runs.
C5_PendingCallbackIsReplaced ==
    [][/\ \A t \in 1..Len(tasks) :
            (tasks[t].pc = "scheduled" /\ tasks'[t].pc # "scheduled") =>
                ~\E u \in (t + 1)..Len(tasks) :
                    tasks[u].kind = "re" /\ tasks[u].pr = tasks[t].pr
       /\ Len(tasks') > Len(tasks) =>
            LET u == Len(tasks')
            IN  tasks'[u].kind = "re" =>
                  /\ pending'[tasks'[u].pr] = u
                  /\ \A t \in timers' : tasks'[t].pr = tasks'[u].pr => t = u]_vars

\* A superseded callback stays unrun while its successor has run.
C5_Witness ==
    \E t \in 1..Len(tasks) : \E u \in (t + 1)..Len(tasks) :
        /\ tasks[t].kind = "re" /\ tasks[u].kind = "re"
        /\ tasks[t].pr = tasks[u].pr
        /\ tasks[t].pc = "scheduled" /\ t \notin timers
        /\ tasks[u].pc = "done"

\* C6: a PR carries at most one comment that contains the bot marker.
C6_AtMostOneMarkerComment ==
    \A pr \in PRNumbers :
        Cardinality({i \in 1..Len(comments[pr]) : HasMarker(comments[pr][i].body)}) <= 1

\* C7: parsing a freshly generated document yields the result's items as a
\* multiset of (rule_id, description) pairs, all unchecked, and the sha.
C7_RoundTrip ==
    (cl.stage = "parsed" /\ cl.text = generateChecklist(cl.result, cl.sha)) =>
        /\ IsSome(cl.state)
        /\ Get(cl.state).sha = cl.sha
        /\ Len(Get(cl.state).items) = Len(cl.result.items)
        /\ \A k \in 1..Len(Get(cl.state).items) : ~Get(cl.state).items[k].checked
        /\ \A key \in AllKeys :
              Count(Get(cl.state).items, LAMBDA e : ItemKey(e.item) = key)
              = Count(cl.result.items, LAMBDA it : ItemKey(it) = key)

\* A parsed fresh document with two items, one of them of low priority.
C7_Witness ==
    /\ cl.stage = "parsed"
    /\ cl.text = generateChecklist(cl.result, cl.sha)
    /\ Len(cl.result.items) = 2
    /\ \E i \in 1..2 : cl.result.items[i].priority = "low"
    /\ cl.result.uncovered_files # <<>>

\* C8: isComplete(text) is true exactly when the text has no marker or no
\* checkbox line of it is unchecked; a freshly generated document is
\* complete exactly when the result has no items.
C8_IsComplete ==
    cl.stage \in {"text", "parsed"} =>
        /\ isComplete(cl.text)
           = ( \/ ~HasMarker(cl.text)
               \/ \A i \in 1..Len(cl.text) : cl.text[i].t = "item" => cl.text[i].chk )
        /\ cl.text = generateChecklist(cl.result, cl.sha) =>
              (isComplete(cl.text) = (Len(cl.result.items) = 0))

\* A document with the marker whose two items the user has both checked.
C8_Witness ==
    /\ cl.stage = "text"
    /\ HasMarker(cl.text)
    /\ Len(Rows(cl.text)) = 2
    /\ \A k \in 1..2 : Rows(cl.text)[k].checked
    /\ isComplete(cl.text)

PositionIn(seq, x) == CHOOSE i \in 1..Len(seq) : seq[i] = x

\* C9: the uncovered files are exactly the changed paths that match no
\* primary and no companion pattern of an active skill, in the order of the
\* changed-file list; with only content-only skills active every changed
\* path is uncovered.
C9_UncoveredFiles ==
    cf.stage = "classified" =>
        LET Covered(file) ==
                \E s \in 1..Len(cf.active) :
                    \/ \E j \in 1..Len(cf.active[s].paths) :
                          minimatch(file, cf.active[s].paths[j], TRUE)
                    \/ \E j \in 1..Len(cf.active[s].companionPaths) :
                          minimatch(file, cf.active[s].companionPaths[j], TRUE)
        IN  /\ \A i \in 1..Len(cf.files) :
                  (cf.files[i] \in Range(cf.uncovered)) = ~Covered(cf.files[i])
            /\ Range(cf.uncovered) \subseteq Range(cf.files)
            /\ \A i, j \in 1..Len(cf.uncovered) :
                  i < j => PositionIn(cf.files, cf.uncovered[i])
                           < PositionIn(cf.files, cf.uncovered[j])
            /\ (\A s \in 1..Len(cf.active) : cf.active[s].paths = <<>>) =>
                  cf.uncovered = cf.files

\* A dot-prefixed path is covered by an active skill, another path is not.
C9_Witness ==
    /\ cf.stage = "classified"
    /\ cf.files = <<PWorkflow, PUnrelated>>
    /\ cf.uncovered = <<PUnrelated>>
    /\ cf.active # <<>>

\* C10: a skill with companion patterns is active only when a changed path
\* matches its primary patterns and no changed path matches a companion
\* pattern.
C10_CompanionAbsenceTriggers ==
    cf.stage \in {"detected", "classified"} =>
        \A s \in 1..Len(SKILLS) :
            SKILLS[s].companionPaths # <<>> =>
                ( (\E k \in 1..Len(cf.active) : cf.active[k].id = SKILLS[s].id)
                  => ( /\ matchesPaths(cf.files, SKILLS[s].paths)
                       /\ ~matchesPaths(cf.files, SKILLS[s].companionPaths) ) )

\* The patterns of a skill read off the catalog: a content pattern written
\* "(?i)X" stands for X matched case-insensitively.
PathPatternMatches(skill, files) ==
    \E i \in 1..Len(files) : \E j \in 1..Len(skill.paths) :
        minimatch(files[i], skill.paths[j], TRUE)

ContentPatternMatches(skill, diff) ==
    \E j \in 1..Len(skill.content) :
        IF skill.content[j] \in CaseInsensitivePrefixed
        THEN [src |-> Slice4(skill.content[j]), flags |-> "i"] \in diff
        ELSE [src |-> skill.content[j], flags |-> ""] \in diff

\* C11: detectActiveSkills returns exactly the catalog skills with a path
\* pattern matching a changed path (dot segments matched as ordinary ones) or
\* a content pattern matching the diff text, in catalog order; a skill with
\* neither match is not returned; the call never throws.
C11_DetectActiveSkills ==
    /\ cf.stage # "threw" /\ ~cf.threw
    /\ cf.stage \in {"detected", "classified"} =>
          /\ \A s \in 1..Len(SKILLS) :
                (\E k \in 1..Len(cf.active) : cf.active[k] = SKILLS[s])
                <=> ( \/ PathPatternMatches(SKILLS[s], cf.files)
                      \/ ContentPatternMatches(SKILLS[s], cf.diff) )
          /\ \A k \in 1..Len(cf.active) : \E s \in 1..Len(SKILLS) :
                cf.active[k] = SKILLS[s]
          /\ \A k, l \in 1..Len(cf.active) :
                k < l => \E s, u \in 1..Len(SKILLS) :
                            /\ s < u
                            /\ cf.active[k] = SKILLS[s]
                            /\ cf.active[l] = SKILLS[u]

\* A dot file below config/ activates the configuration skill, a
\* case-insensitive content pattern the secrets skill, in catalog order.
C11_Witness ==
    /\ cf.stage = "detected"
    /\ cf.files = <<PEnvFile>>
    /\ Len(cf.active) = 2
    /\ cf.active[1].id = "secrets"
    /\ cf.active[2].id = "configuration"

\* A section's file name matches a primary or companion pattern of a rule.
IsPrioritized(filename, rules) ==
    \E r \in 1..Len(rules) :
        \/ \E j \in 1..Len(rules[r].paths) :
              minimatch(filename, rules[r].paths[j], TRUE)
        \/ \E j \in 1..Len(rules[r].missing_companion) :
              minimatch(filename, rules[r].missing_companion[j], TRUE)

FooterLength(out) ==
    SumOver(SelectSeq(out.parts, LAMBDA part : part.kind = "summary"),
            LAMBDA part : part.len)

\* C12: the returned diff is at most maxSize characters long, the
\* omitted-files footer not counted.
C12_LengthWithinBudget ==
    td.stage = "done" =>
        OutputLength(td.out) <= td.maxSize + FooterLength(td.out)

\* C13: when truncateDiff truncates, every section whose file name matches a
\* rule pattern has a piece in the output, the whole section or its leading
\* lines, and filesSummarized names only files that match no rule pattern.
C13_PrioritizedNeverOmitted ==
    (td.stage = "done" /\ td.out.truncated) =>
        LET files == parseDiffFiles(td.diff)
        IN  /\ \A i \in 1..Len(files) :
                  IsPrioritized(files[i].filename, td.rules) =>
                      \E k \in 1..Len(td.out.parts) :
                          LET part == td.out.parts[k]
                          IN  /\ part.idx = i
                              /\ part.filename = files[i].filename
                              /\ \/ part.kind = "whole" /\ part.len = ContentLength(files[i])
                                 \/ /\ part.kind = "prefix"
                                    /\ part.lines >= 1
                                    /\ part.lines < SplitCount(files[i])
            /\ \A j \in 1..Len(td.out.filesSummarized) :
                  ~IsPrioritized(td.out.filesSummarized[j], td.rules)

\* A prioritized section is cut to its leading lines while a background
\* file is omitted.
C13_Witness ==
    /\ td.stage = "done" /\ td.out.truncated
    /\ \E k \in 1..Len(td.out.parts) :
          /\ td.out.parts[k].kind = "prefix"
          /\ td.out.parts[k].lines = 50
          /\ IsPrioritized(td.out.parts[k].filename, td.rules)
    /\ Len(td.out.filesSummarized) >= 1

\* C14: truncated is false exactly when the diff is at most maxSize long;
\* then the diff is returned unchanged with no file summarized; a longer
\* diff gives truncated = true even when nothing was cut or omitted.
C14_TruncatedFlag ==
    td.stage = "done" =>
        LET files == parseDiffFiles(td.diff)
        IN  /\ td.out.truncated = (DiffLength(td.diff) > td.maxSize)
            /\ ~td.out.truncated =>
                  /\ Len(td.out.parts) = Len(files)
                  /\ \A i \in 1..Len(files) :
                        /\ td.out.parts[i].idx = i
                        /\ td.out.parts[i].kind = "whole"
                        /\ td.out.parts[i].len = RawLength(files[i])
                  /\ OutputLength(td.out) = DiffLength(td.diff)
                  /\ td.out.filesSummarized = <<>>

\* A diff over the budget of which every section is returned whole.
C14_Witness ==
    /\ td.stage = "done" /\ td.out.truncated
    /\ DiffLength(td.diff) > td.maxSize
    /\ Len(td.out.parts) = Len(td.diff.sections)
    /\ \A k \in 1..Len(td.out.parts) : td.out.parts[k].kind = "whole"
    /\ td.out.filesSummarized = <<>>

\* C15: when truncateDiff truncates, a background section is in the output
\* whole and once, or not at all and then its file name is in
\* filesSummarized; the included background sections keep their order; the
\* omitted-files block lists filesSummarized, ends the output and is there
\* exactly when a file was omitted.
C15_BackgroundWholeOrOmitted ==
    (td.stage = "done" /\ td.out.truncated) =>
        LET files == parseDiffFiles(td.diff)
            parts == td.out.parts
            Background(i) == ~IsPrioritized(files[i].filename, td.rules)
            PartsOf(i) == {k \in 1..Len(parts) : parts[k].idx = i}
            omitted == SelectSeq(files, LAMBDA f : /\ ~IsPrioritized(f.filename, td.rules)
                                                  /\ ~\E k \in 1..Len(parts) :
                                                         parts[k].idx = f.idx)
        IN  /\ \A i \in 1..Len(files) :
                  Background(i) =>
                      \/ /\ Cardinality(PartsOf(i)) = 1
                         /\ \A k \in PartsOf(i) :
                               /\ parts[k].kind = "whole"
                               /\ parts[k].filename = files[i].filename
                               /\ parts[k].len = ContentLength(files[i])
                      \/ /\ PartsOf(i) = {}
                         /\ \E j \in 1..Len(td.out.filesSummarized) :
                               td.out.filesSummarized[j] = files[i].filename
            /\ td.out.filesSummarized = [j \in 1..Len(omitted) |-> omitted[j].filename]
            /\ \A k, l \in 1..Len(parts) :
                  ( /\ k < l
                    /\ parts[k].idx > 0 /\ parts[l].idx > 0
                    /\ Background(parts[k].idx) /\ Background(parts[l].idx) )
                  => parts[k].idx < parts[l].idx
            /\ (\E k \in 1..Len(parts) : parts[k].kind = "summary")
               <=> Len(td.out.filesSummarized) >= 1
            /\ \A k \in 1..Len(parts) :
                  parts[k].kind = "summary" =>
                      /\ k = Len(parts)
                      /\ parts[k].lines = Len(td.out.filesSummarized)

\* One background file is omitted, a later and shorter one is included whole.
C15_Witness ==
    /\ td.stage = "done" /\ td.out.truncated
    /\ td.rules = <<MigrationRule>>
    /\ Len(td.out.filesSummarized) = 1
    /\ \E k \in 1..Len(td.out.parts) :
          /\ td.out.parts[k].kind = "whole"
          /\ ~IsPrioritized(td.out.parts[k].filename, td.rules)
          /\ td.out.parts[k].idx > 1
          /\ ~\E l \in 1..Len(td.out.parts) : td.out.parts[l].idx = 1

\* C16: analyzeDiff never throws: whatever fails inside it, it returns null.
C16_AnalyzeDiffNeverThrows ==
    an.stage = "done" => an.outcome # "threw"

\* C17: a reply is accepted whole or not at all.  When the reply has no
\* array of items, an item with a required field missing or wrongly typed,
\* or no string summary, analyzeDiff returns no result; a result it returns
\* has every item of the reply, field by field, and the reply's summary.
C17_AllOrNothing ==
    (an.stage = "done" /\ IsSome(an.reply)) =>
        LET input == Get(an.reply).input
            Typed(x) == x.type = "string"
            Complete(raw) ==
                /\ Typed(raw.rule_id) /\ Typed(raw.check)
                /\ Typed(raw.description) /\ Typed(raw.reasoning)
                /\ Typed(raw.priority)
                /\ raw.priority.v \in {"high", "medium", "low"}
            Acceptable ==
                /\ input.items.type = "array"
                /\ \A i \in 1..Len(input.items.v) : Complete(input.items.v[i])
                /\ Typed(input.summary)
        IN  /\ ~Acceptable => (an.outcome = "null" /\ an.result = None)
            /\ an.outcome = "result" =>
                  LET r == Get(an.result)
                  IN  /\ Acceptable
                      /\ Len(r.items) = Len(input.items.v)
                      /\ \A i \in 1..Len(r.items) :
                            /\ r.items[i].rule_id = input.items.v[i].rule_id.v
                            /\ r.items[i].check = input.items.v[i].check.v
                            /\ r.items[i].description = input.items.v[i].description.v
                            /\ r.items[i].reasoning = input.items.v[i].reasoning.v
                            /\ r.items[i].priority = input.items.v[i].priority.v
                      /\ r.summary = input.summary.v

\* A reply with one good item and one without its reasoning is rejected.
C17_Witness ==
    /\ an.stage = "done" /\ IsSome(an.reply)
    /\ Get(an.reply).tool_use
    /\ Get(an.reply).input.items.type = "array"
    /\ Len(Get(an.reply).input.items.v) = 2
    /\ Get(an.reply).input.items.v[1] = RawItem(ItemY)
    /\ Get(an.reply).input.items.v[2].reasoning.type = "undefined"
    /\ an.outcome = "null"

\* How the promise of a run has settled.
Settled(task) ==
    IF task.pc = "done" THEN "fulfilled"
    ELSE IF task.pc = "rejected" THEN "rejected"
    ELSE "pending"

\* C18: a failure inside a debounced task is caught and reported: the
\* promise of a debounced callback is never rejected (so nothing reaches the
\* timer task that awaits it, and the scheduling handler has returned when
\* the timer was armed), and a debounced run that failed has ended in its
\* catch block.
C18_DebouncedFailureCaught ==
    \A t \in 1..Len(tasks) :
        tasks[t].kind = "re" =>
            /\ Settled(tasks[t]) # "rejected"
            /\ tasks[t].failed => Settled(tasks[t]) = "fulfilled"
            /\ tasks[t].pc = "scheduled" => ~tasks[t].failed

\* A debounced run failed after its timer fired and its error comment is on
\* the PR.
C18_Witness ==
    \E t \in 1..Len(tasks) :
        /\ tasks[t].kind = "re"
        /\ tasks[t].failed
        /\ Settled(tasks[t]) = "fulfilled"
        /\ t \notin timers
        /\ \E i \in 1..Len(comments[tasks[t].pr]) :
              /\ IsErrorComment(comments[tasks[t].pr][i])
              /\ comments[tasks[t].pr][i].body[1].b
                 = "An unexpected error occurred during re-analysis."



(***************************************************************************)
(* Properties of handleIssueCommentEdited                                  *)
(***************************************************************************)
\* The reviews a run has created.
ReviewsOf(t) ==
    IF tasks[t].pr \in PRNumbers
    THEN {i \in 1..Len(reviews[tasks[t].pr]) : reviews[tasks[t].pr][i].task = t}
    ELSE {}

\* Every checkbox item of the text is ticked.
EveryItemChecked(text) ==
    \A i \in 1..Len(text) : i \in Range(ItemMatches(text)) => text[i].chk

\* The edited comment carries the marker, is on a pull request and parses.
EditIsEvaluated(t) ==
    /\ HasMarker(Get(tasks[t].existing).body)
    /\ tasks[t].pr \in PRNumbers
    /\ parseChecklist(Get(tasks[t].existing).body) # None

C20_OnlyBotCommentsProcessed ==
    \A t \in 1..Len(tasks) :
        ( /\ tasks[t].kind = "edit"
          /\ Get(tasks[t].existing).author # BotLogin ) =>
            ReviewsOf(t) = {}


(***************************************************************************)
(* Properties of handlePullRequest and handleNewAnalysis                   *)
(***************************************************************************)
\* A run of handleNewAnalysis whose analysis returned a result.
AnalysedNewRun(t) == tasks[t].kind = "new" /\ IsSome(tasks[t].result)

IsChecklistOf(c, result, sha) ==
    c.author = BotLogin /\ c.body = generateChecklist(result, sha)

\* C21: a run of handleNewAnalysis (opened, reopened, ready_for_review past
\* the filters) whose analysis returned a result.  With at least one item the
\* run creates the checklist comment of the result and only then, the
\* comment being on the PR, one REQUEST_CHANGES review, and no other review;
\* with no item it creates one APPROVE review and no REQUEST_CHANGES review.
\* A run that ends without a failed call has created its review.
C21_NewAnalysisOutcome ==
    [][\A t \in 1..Len(tasks) :
         AnalysedNewRun(t) =>
           LET pr == tasks[t].pr
               r == Get(tasks[t].result)
               expected == IF Len(r.items) >= 1 THEN "REQUEST_CHANGES" ELSE "APPROVE"
               mine(rs) == {i \in 1..Len(rs[pr]) : rs[pr][i].task = t}
           IN  /\ \A i \in mine(reviews') : reviews'[pr][i].event = expected
               /\ Cardinality(mine(reviews')) <= 1
               /\ (tasks[t].pc = "comment" /\ tasks'[t].pc = "dismiss") =>
                     /\ Len(comments'[pr]) = Len(comments[pr]) + 1
                     /\ IsChecklistOf(comments'[pr][Len(comments'[pr])], r, tasks[t].sha)
               /\ (Len(r.items) >= 1 /\ mine(reviews') # mine(reviews)) =>
                     /\ tasks[t].pc = "review"
                     /\ \E c \in 1..Len(comments[pr]) :
                           HasMarker(comments[pr][c].body) /\ comments[pr][c].author = BotLogin
               /\ (Len(r.items) >= 1 /\ tasks[t].pc \in {"dismiss", "review"}) =>
                     \E c \in 1..Len(comments[pr]) :
                        HasMarker(comments[pr][c].body) /\ comments[pr][c].author = BotLogin
               /\ (tasks'[t].pc = "done" /\ ~tasks'[t].failed) =>
                     Cardinality(mine(reviews')) = 1]_vars

\* A first analysis with items has posted its checklist and blocked the PR.
C21_Witness ==
    \E t \in 1..Len(tasks) :
        /\ AnalysedNewRun(t)
        /\ Len(Get(tasks[t].result).items) >= 1
        /\ tasks[t].pc = "done" /\ ~tasks[t].failed
        /\ \E i \in ReviewsOf(t) : reviews[tasks[t].pr][i].event = "REQUEST_CHANGES"
        /\ \E c \in 1..Len(comments[tasks[t].pr]) :
              IsChecklistOf(comments[tasks[t].pr][c], Get(tasks[t].result), tasks[t].sha)


\* The event is one the claim says is skipped: a draft with analyze_drafts
\* off, an ignored author, a base branch outside a non-empty
\* target_branches, or an action other than the four.
EventIsFiltered ==
    \/ hp.p.draft /\ ~hp.loaded.settings.analyze_drafts
    \/ \E k \in 1..Len(hp.loaded.settings.ignore_authors) :
          hp.loaded.settings.ignore_authors[k] = hp.p.author
    \/ /\ hp.loaded.settings.target_branches # <<>>
       /\ ~\E k \in 1..Len(hp.loaded.settings.target_branches) :
             hp.loaded.settings.target_branches[k] = hp.p.base
    \/ hp.action \notin {"opened", "reopened", "ready_for_review", "synchronize"}

\* C22: for a filtered event handlePullRequest starts no run: no analysis is
\* ever called for it and no review is created.  An event that is not
\* filtered, among them every event of a repository whose target_branches
\* is empty and that is no draft and of no ignored author, starts its
\* sub-handler unless loading the config or posting its warning threw.
C22_FilteredEventsDoNothing ==
    hp.stage = "delivered" =>
        /\ Len(tasks) = 1
        /\ EventIsFiltered =>
              /\ tasks[1].kind = "skipped"
              /\ tasks[1].pc = "done"
              /\ tasks[1].result = None
              /\ timers = {}
              /\ \A pr \in PRNumbers : reviews[pr] = <<>>
        /\ (~EventIsFiltered /\ ~hp.rejected) => tasks[1].kind \in {"new", "re"}

\* A PR to the dev branch of a repository with no target_branches was
\* analysed and reviewed.
C22_Witness ==
    /\ hp.stage = "delivered"
    /\ hp.loaded.settings.target_branches = <<>>
    /\ hp.p.base = "dev"
    /\ tasks[1].kind = "new"
    /\ tasks[1].pc = "done"
    /\ reviews[1] # <<>>


(***************************************************************************)
(* Properties of handleReanalysis                                          *)
(***************************************************************************)
\* The run found no prior checklist document: no comment with the marker, or
\* one that parseChecklist returns null for.
NoPriorDocument(t) ==
    \/ tasks[t].existing = None
    \/ parseChecklist(Get(tasks[t].existing).body) = None

RenderedItems(text) ==
    [k \in 1..Len(ItemMatches(text)) |->
        LET i == ItemMatches(text)[k]
        IN  [rule_id |-> text[i + 2].a, check |-> text[i].a,
             description |-> text[i + 1].a, reasoning |-> text[i + 1].b]]

\* The same of the items of one priority tier of a result, in result order.
ShownTier(items, priority) ==
    LET tier == SelectSeq(items, LAMBDA it : it.priority = priority)
    IN  [k \in 1..Len(tier) |->
            [rule_id |-> tier[k].rule_id, check |-> tier[k].check,
             description |-> tier[k].description, reasoning |-> tier[k].reasoning]]

\* C24: a generated document shows the items of the result tier by tier,
\* all high items, then all medium items, then all low items, and inside a
\* tier in the order the analysis returned them.
C24_PriorityOrderStable ==
    (cl.stage \in {"text", "parsed"} /\ HasMarker(cl.text)) =>
        RenderedItems(cl.text)
        = ShownTier(cl.result.items, "high") \o ShownTier(cl.result.items, "medium")
          \o ShownTier(cl.result.items, "low")

\* The generated document of two distinct high items, in either order of
\* the result.
C24_Witness ==
    /\ cl.stage = "text"
    /\ HasMarker(cl.text)
    /\ cl.result.items \in {<<ItemW, ItemY>>, <<ItemY, ItemW>>}

\* The checkbox lines of the text that have their body and rule lines.
ParsableLines(text) ==
    {i \in 1..Len(text) : /\ text[i].t = "item"
                          /\ i + 2 <= Len(text)
                          /\ text[i + 1].t = "body"
                          /\ text[i + 2].t = "rule"}

\* C25: parseChecklist returns null exactly for a text without the marker.
\* For a text with the marker, damaged or not, it returns a state with one
\* item per checkbox line that parses, in document order, each with the
\* line's check text and checked flag; the lines that do not parse are left
\* out and the parse does not fail.
C25_ParseIsTotal ==
    cl.stage = "parsed" =>
        /\ (cl.state = None) = ~HasMarker(cl.text)
        /\ IsSome(cl.state) =>
              LET items == Get(cl.state).items
              IN  /\ Len(items) = Cardinality(ParsableLines(cl.text))
                  /\ \E pos \in [1..Len(items) -> ParsableLines(cl.text)] :
                        /\ \A j, k \in 1..Len(items) : j < k => pos[j] < pos[k]
                        /\ \A k \in 1..Len(items) :
                              /\ items[k].checked = cl.text[pos[k]].chk
                              /\ items[k].item.check = cl.text[pos[k]].a
                              /\ items[k].item.rule_id = cl.text[pos[k] + 2].a
                  /\ Get(cl.state).allComplete
                     = \A i \in ParsableLines(cl.text) : cl.text[i].chk

\* A document with the marker and a checkbox line that lost its rule line
\* was parsed: the other item is returned.
C25_Witness ==
    /\ cl.stage = "parsed"
    /\ HasMarker(cl.text)
    /\ IsSome(cl.state)
    /\ Len(Get(cl.state).items) = 1
    /\ Cardinality({i \in 1..Len(cl.text) : cl.text[i].t = "item"}) = 2


\* The text without the lines of its informational section.
WithoutInformational(text) ==
    SelectSeq(text, LAMBDA l : l.t \notin {"h3", "info"})

C27_MergeWithDefaults ==
    (mc.stage = "loaded" /\ mc.file = "valid") =>
        LET ids(rules) == {rules[i].id : i \in 1..Len(rules)}
            withId(rules, id) == SelectSeq(rules, LAMBDA r : r.id = id)
        IN  /\ \A id \in ids(mc.rules) :
                  withId(mc.merged, id) = withId(mc.rules, id)
            /\ \A id \in ids(DEFAULT_RULES) \ ids(mc.rules) :
                  withId(mc.merged, id) = withId(DEFAULT_RULES, id)
            /\ ids(mc.merged) = ids(mc.rules) \cup ids(DEFAULT_RULES)
            /\ Len(mc.merged)
               = Len(mc.rules)
                 + Cardinality({k \in 1..Len(DEFAULT_RULES) :
                                  DEFAULT_RULES[k].id \notin ids(mc.rules)})

\* A file with a rule of its own and one that overrides default-env was
\* loaded; the four other built-in rules are kept.
C27_Witness ==
    /\ mc.stage = "loaded"
    /\ mc.file = "valid"
    /\ \E i \in 1..Len(mc.rules) : mc.rules[i].id = "default-env"
    /\ \E i \in 1..Len(mc.rules) : mc.rules[i].id = "api-contract"
    /\ Len(mc.rules) = 2
    /\ Len(mc.merged) = 6


UsedBefore(out, k) ==
    SumOver(SubSeq(out.parts, 1, k - 1), LAMBDA part : part.len)

\* C29: when truncateDiff truncates, every piece of a prioritized section
\* in the output is at most half of maxSize long, and a prioritized section
\* that, taken whole, would bring the size used so far past 90% of maxSize
\* is in the output as its first 50 lines.
C29_PrioritizedShares ==
    (td.stage = "done" /\ td.out.truncated) =>
        LET files == parseDiffFiles(td.diff)
        IN  \A k \in 1..Len(td.out.parts) :
                LET part == td.out.parts[k]
                IN  (part.kind # "summary" /\ IsPrioritized(part.filename, td.rules)) =>
                        /\ 2 * part.len <= td.maxSize
                        /\ 10 * (UsedBefore(td.out, k) + ContentLength(files[part.idx]))
                              > 9 * td.maxSize
                           => (part.kind = "prefix" /\ part.lines = 50)

\* No line of the diff starts with "diff --git ": the text is one section
\* that no header precedes.
Headerless(diff) == diff.leading /\ Len(diff.sections) = 1

\* C30: truncateDiff returns a result for every input, and a diff over the budget
\* that has no "diff --git " header is treated as one section named
\* "unknown": the output is that section's piece, or the omitted-files block
\* that lists "unknown".
C30_HeaderlessIsUnknown ==
    (td.stage = "input" =>
        LET out == truncateDiff(td.diff, td.maxSize, td.rules)
        IN  out.truncated \in BOOLEAN /\ OutputLength(out) >= 0)
    /\ ((td.stage = "done" /\ Headerless(td.diff) /\ DiffLength(td.diff) > td.maxSize) =>
           \/ /\ Len(td.out.parts) = 1
              /\ td.out.parts[1].kind # "summary"
              /\ td.out.parts[1].idx = 1
              /\ td.out.parts[1].filename = Unknown
              /\ td.out.filesSummarized = <<>>
           \/ /\ Len(td.out.parts) = 1
              /\ td.out.parts[1].kind = "summary"
              /\ td.out.filesSummarized = <<Unknown>>)


(***************************************************************************)
(* Properties of the re-analysis runs and of their reviews                 *)
(***************************************************************************)
\* A debounced run whose analysis returned a result with at least one item.
ReanalysedWithItems(t) ==
    /\ tasks[t].kind = "re"
    /\ IsSome(tasks[t].result)
    /\ Len(Get(tasks[t].result).items) >= 1

\* Every item of the run's result found its key in the old document, with
\* the box ticked.
EveryItemInherited(t) ==
    /\ IsSome(tasks[t].existing)
    /\ IsSome(parseChecklist(MergeSource(t)))
    /\ LET oldState == Get(parseChecklist(MergeSource(t)))
           r == Get(tasks[t].result)
       IN  \A i \in 1..Len(r.items) :
              \E k \in 1..Len(oldState.items) :
                 /\ ItemKey(oldState.items[k].item) = ItemKey(r.items[i])
                 /\ oldState.items[k].checked

\* The comment the run writes to: the one findBotComment returned, or the
\* one it creates.
WrittenId(t, cs) ==
    IF IsSome(tasks[t].existing) THEN Get(tasks[t].existing).id
    ELSE Len(cs[tasks[t].pr])

\* C31: in a re-analysis that returned at least one item, when the run
\* writes its document it decides REQUEST_CHANGES exactly when the written
\* document has an unchecked item (it is not complete), and APPROVE exactly
\* when every item of the result inherited a ticked box; every review the
\* run creates carries that decision, at most one is created, and exactly
\* one when no call of the run failed.
C31_ReanalysisDecisionAgrees ==
    [][\A t \in 1..Len(tasks) :
         ReanalysedWithItems(t) =>
           LET pr == tasks[t].pr
               mine(rs) == {i \in 1..Len(rs[pr]) : rs[pr][i].task = t}
           IN  /\ (tasks[t].pc = "write" /\ tasks'[t].pc = "dismiss") =>
                     LET written == comments'[pr][WrittenId(t, comments')].body
                         state == parseChecklist(written)
                     IN  /\ IsSome(state)
                         /\ Len(Get(state).items) = Len(Get(tasks[t].result).items)
                         /\ (tasks'[t].event = "REQUEST_CHANGES")
                               <=> (\E k \in 1..Len(Get(state).items) :
                                       ~Get(state).items[k].checked)
                         /\ (tasks'[t].event = "APPROVE") <=> Get(state).allComplete
                         /\ (tasks'[t].event = "APPROVE") <=> EveryItemInherited(t)
                         /\ tasks'[t].event \in {"REQUEST_CHANGES", "APPROVE"}
               /\ (tasks[t].pc \in {"dismiss", "review"}) =>
                     /\ tasks'[t].event = tasks[t].event
                     /\ \A i \in mine(reviews') \ mine(reviews) :
                           reviews'[pr][i].event = tasks[t].event
               /\ Cardinality(mine(reviews')) <= 1
               /\ (tasks'[t].pc = "done" /\ ~tasks'[t].failed) =>
                     Cardinality(mine(reviews')) = 1]_vars

\* The reviews run t has created on its PR, in the reviews rs.
CreatedBy(t, rs) ==
    {i \in 1..Len(rs[tasks[t].pr]) : rs[tasks[t].pr][i].task = t}

\* C32: blockPR and approvePR call dismissStaleReviews first and createReview
\* after it.  Every review that is dismissed is dismissed in the
\* dismissStaleReviews call of a run that has not created its review yet;
\* that call always returns to the run, however many of the stale reviews
\* it dismissed (an error of the list or of a dismissal ends it early), and
\* leaves the run about to call createReview; a run creates its review only
\* after that call.
C32_DismissBeforeReview ==
    [][/\ \A t \in 1..Len(tasks) :
            /\ (tasks[t].pc = "dismiss" /\ tasks'[t].pc # "dismiss") =>
                  /\ tasks'[t].pc = "review"
                  /\ ~tasks'[t].failed
                  /\ faults' = faults
                  /\ comments' = comments
                  /\ CreatedBy(t, reviews) = {}
                  /\ CreatedBy(t, reviews') = {}
            /\ CreatedBy(t, reviews') # CreatedBy(t, reviews) =>
                  /\ tasks[t].pc = "review"
                  /\ \A i \in 1..Len(reviews[tasks[t].pr]) :
                        reviews'[tasks[t].pr][i] = reviews[tasks[t].pr][i]
       /\ \A pr \in PRNumbers : \A i \in 1..Len(reviews[pr]) :
            reviews'[pr][i] # reviews[pr][i] =>
               \E t \in 1..Len(tasks) :
                  /\ tasks[t].pr = pr
                  /\ tasks[t].pc = "dismiss"
                  /\ tasks'[t].pc = "review"
                  /\ CreatedBy(t, reviews') = {}]_vars

\* The dismissal stopped early: a stale review of the bot is left as it was,
\* another was dismissed, and the run has created its new review all the
\* same.
C32_Witness ==
    /\ Len(tasks) = 1
    /\ tasks[1].pc = "done" /\ ~tasks[1].failed
    /\ CreatedBy(1, reviews) # {}
    /\ \E i \in 1..Len(reviews[1]) : reviews[1][i] = PriorReview(BotLogin, "CHANGES_REQUESTED")
    /\ \E i \in 1..Len(reviews[1]) : reviews[1][i] = PriorReview(BotLogin, "DISMISSED")

\* C39: once approvePR has returned (the run's APPROVE review is created),
\* no review of the bot in state CHANGES_REQUESTED is left on the PR,
\* whatever the list and dismiss calls did.
C39_NoStaleBlockAfterApprove ==
    \A t \in 1..Len(tasks) :
        (/\ tasks[t].pc = "done"
         /\ ~tasks[t].failed
         /\ tasks[t].event = "APPROVE"
         /\ CreatedBy(t, reviews) # {}
         /\ \A i \in 1..Len(reviews[tasks[t].pr]) :
               reviews[tasks[t].pr][i].task \in {0, t})
        => ~\E i \in 1..Len(reviews[tasks[t].pr]) : IsStale(reviews[tasks[t].pr][i])


(***************************************************************************)
(* Properties of the prompt                                                *)
(***************************************************************************)
SectionOrder ==
    << "Active Skills", "Custom Rules", "Repository Context", "PR Information",
       "Full File Contents (for context)", "Files Without Skill Coverage", "Diff",
       "Instructions" >>

\* The place of a title in the fixed order.
PlaceOf(title) == CHOOSE k \in 1..Len(SectionOrder) : SectionOrder[k] = title

\* The prompt has a section of that title.
HasSection(out, title) == \E i \in 1..Len(out) : out[i].title = title

IsAuthError(message) == message \in {AuthenticationError, PermissionDeniedError}

Reissued == Cardinality({i \in 1..Len(rl.sent) : rl.sent[i]})

C34_Bounded ==
    /\ \A i \in 1..Len(rl.sent) : rl.sent[i] = (i > 1)
    /\ Reissued <= 2
    \* every request but the last one failed, and not with an authentication error
    /\ Len(rl.warned) \in {Len(rl.sent) - 1, Len(rl.sent)}
    /\ \A i \in 1..Len(rl.sent) - 1 : ~IsAuthError(rl.warned[i])
    \* the reply that validated is the last one and is what is returned
    /\ (Len(rl.warned) < Len(rl.sent)) <=>
           (rl.stage = "done" /\ rl.outcome = "result" /\ IsSome(rl.result))
    \* after an authentication error, or with the attempts used up, nothing
    \* is left but to return null
    /\ (/\ Len(rl.warned) > 0
        /\ \/ IsAuthError(rl.warned[Len(rl.warned)])
           \/ Len(rl.warned) = 1 + 2)
           => (rl.stage \in {"failed", "done"} /\ rl.outcome \in {"none", "null"})
    /\ rl.stage = "done" => rl.outcome \in {"result", "null"}
    /\ rl.stage = "failed" => rl.outcome = "none"

Armed(key) == {t \in timers : tasks[t].pr = key}

Running(key) == {t \in 1..Len(tasks) : tasks[t].pr = key /\ tasks[t].pc = "running"}

C36_MapInvariant ==
    \A key \in PRNumbers :
        /\ Cardinality(Armed(key)) <= 1
        /\ hasPending(key) <=> Armed(key) # {}
        /\ hasPending(key) => Armed(key) = {pending[key]}
        /\ \A t \in Armed(key) : tasks[t].pc = "timer"
        /\ \A t \in Running(key) : t \notin timers /\ pending[key] # t

C36_DebounceWhileRunning ==
    \A key \in PRNumbers :
        (/\ Running(key) # {}
         /\ Armed(key) = {}
         /\ Len(tasks') = Len(tasks) + 1
         /\ tasks'[Len(tasks')].pr = key)
        => /\ ~hasPending(key)
           /\ timers' = timers \cup {Len(tasks')}
           /\ pending'[key] = Len(tasks')
           /\ \A t \in 1..Len(tasks) : tasks'[t] = tasks[t]

C36_DebounceMap == []C36_MapInvariant /\ [][C36_DebounceWhileRunning]_vars

\* Two callbacks of one key run at the same time.
C36_Witness ==
    \E key \in PRNumbers : Cardinality(Running(key)) >= 2

(***************************************************************************)
(* C37: a re-analysis whose analyzeDiff returns null changes nothing that  *)
(* exists.  The step that handles the null result leaves every existing    *)
(* comment (the checklist comment with its checked flags and its sha among *)
(* them) and every review as they are, and adds at most one comment, the   *)
(* error comment "Re-analysis failed after new commits were pushed.",      *)
(* exactly one unless posting it fails; the run takes no step after it and *)
(* has created no review.                                                  *)
(***************************************************************************)
\* The step in which fetchAndAnalyze of a re-analysis returns null.
NullReanalysis(t) ==
    /\ tasks[t].kind = "re"
    /\ tasks[t].pc = "analyze"
    /\ tasks'[t].pc # "analyze"
    /\ tasks'[t].result = None
    /\ faults' = faults

EndedWithoutResult(t) ==
    /\ tasks[t].kind = "re"
    /\ tasks[t].pc = "done"
    /\ tasks[t].failed
    /\ tasks[t].result = None

C37_NullStepFrame ==
    \A t \in 1..Len(tasks) :
        /\ NullReanalysis(t) =>
              LET pr == tasks[t].pr
                  old == comments[pr]
                  new == comments'[pr]
              IN  /\ reviews' = reviews
                  /\ \A q \in PRNumbers \ {pr} : comments'[q] = comments[q]
                  /\ Len(new) \in {Len(old), Len(old) + 1}
                  /\ \A i \in 1..Len(old) : new[i] = old[i]
                  /\ Len(new) = Len(old) + 1 =>
                        new[Len(new)].body =
                            ErrorComment("Re-analysis failed after new commits were pushed.")
                  /\ tasks'[t].pc = "done"
                  /\ pending' = pending /\ timers' = timers
        /\ EndedWithoutResult(t) => tasks'[t] = tasks[t]

C37_NoReviewOfFailedRun ==
    \A t \in 1..Len(tasks) :
        EndedWithoutResult(t) =>
            \A i \in 1..Len(reviews[tasks[t].pr]) : reviews[tasks[t].pr][i].task # t

C37_NullReanalysisChangesNothing ==
    []C37_NoReviewOfFailedRun /\ [][C37_NullStepFrame]_vars

\* A re-analysis has ended on a null result beside a checklist comment with
\* a ticked item, and its error comment is there.
C37_Witness ==
    \E t \in 1..Len(tasks) :
        /\ EndedWithoutResult(t)
        /\ IsSome(tasks[t].existing)
        /\ ~HasUnchecked(comments[tasks[t].pr][Get(tasks[t].existing).id].body)
        /\ \E i \in 1..Len(comments[tasks[t].pr]) :
              comments[tasks[t].pr][i].body =
                  ErrorComment("Re-analysis failed after new commits were pushed.")

(***************************************************************************)
(* C35: the embedded sha as an optimistic lock.  When the re-analyses of a *)
(* PR have all ended (each superseded before its timer fired, or run to    *)
(* its end on a result with items, without a failure) and no timer is      *)
(* armed, the sha embedded in the checklist document is the sha of the     *)
(* PR's head commit: the analysis of an older commit has not overwritten   *)
(* the document written for a newer one.                                   *)
(***************************************************************************)
Superseded(t) == tasks[t].pc = "scheduled" /\ t \notin timers

RanToItsEnd(t) ==
    /\ tasks[t].pc = "done"
    /\ ~tasks[t].failed
    /\ IsSome(tasks[t].result)
    /\ Len(Get(tasks[t].result).items) >= 1

ReanalysesEnded(pr) ==
    /\ \A t \in 1..Len(tasks) :
          tasks[t].pr = pr /\ tasks[t].kind # "edit" =>
              tasks[t].kind = "re" /\ (Superseded(t) \/ RanToItsEnd(t))
    /\ \E t \in 1..Len(tasks) :
          tasks[t].pr = pr /\ tasks[t].kind = "re" /\ RanToItsEnd(t)
          /\ tasks[t].sha = ShaOf(head[pr])

C35_ShaIsOptimisticLock ==
    \A pr \in PRNumbers :
        (ReanalysesEnded(pr) /\ IsSome(findBotComment(pr))) =>
            ExtractSha(Get(findBotComment(pr)).body) = ShaOf(head[pr])

(***************************************************************************)
(* C38: completion state lives only in the current document.  When a       *)
(* re-analysis overwrites the checklist document, an item of its result    *)
(* that the document does not hold at that moment (an earlier re-analysis  *)
(* dropped it) is written unchecked, whatever it was before it was         *)
(* dropped; and an item of its result that the document holds checked at   *)
(* that moment is written checked.                                         *)
(***************************************************************************)
Overwrites(t) ==
    /\ tasks[t].kind = "re"
    /\ tasks[t].pc = "write"
    /\ tasks'[t].pc = "dismiss"
    /\ IsSome(tasks[t].existing)

\* The keys of the items of a document, all of them or the checked ones.
DocKeys(text, checkedOnly) ==
    LET state == parseChecklist(text)
    IN  IF state = None THEN {}
        ELSE {ItemKey(Get(state).items[k].item) :
                 k \in {j \in 1..Len(Get(state).items) :
                           checkedOnly => Get(state).items[j].checked}}

C38_WriteStep ==
    \A t \in 1..Len(tasks) :
        Overwrites(t) =>
            LET id == Get(tasks[t].existing).id
                current == comments[tasks[t].pr][id].body
                written == comments'[tasks[t].pr][id].body
                items == Get(tasks[t].result).items
            IN  \A k \in 1..Len(items) :
                    /\ ItemKey(items[k]) \notin DocKeys(current, FALSE)
                          => ItemKey(items[k]) \notin DocKeys(written, TRUE)
                    /\ ItemKey(items[k]) \in DocKeys(current, TRUE)
                          => ItemKey(items[k]) \in DocKeys(written, TRUE)

C38_CompletionOnlyInDocument == [][C38_WriteStep]_vars

(***************************************************************************)
(* C40: review and document agree in the end.  On a PR whose events are    *)
(* all handled (every re-analysis superseded before its timer fired or run *)
(* to its end on a result, every edit handled, nothing failed) with no     *)
(* timer armed, the bot's most recent review is REQUEST_CHANGES when the   *)
(* checklist document has an unchecked item and APPROVE when it has none.  *)
(***************************************************************************)
Handled(t) ==
    \/ tasks[t].kind = "skipped"
    \/ tasks[t].kind = "re" /\ Superseded(t)
    \/ /\ tasks[t].kind \in {"re", "edit"}
       /\ tasks[t].pc = "done"
       /\ ~tasks[t].failed
       /\ tasks[t].kind = "re" => IsSome(tasks[t].result)

AllHandled(pr) ==
    /\ \A t \in 1..Len(tasks) : tasks[t].pr = pr => Handled(t)
    /\ \A t \in timers : tasks[t].pr # pr
    /\ \E t \in 1..Len(tasks) : tasks[t].pr = pr /\ tasks[t].pc = "done"
                                /\ tasks[t].kind \in {"re", "edit"}

BotReviews(pr) == SelectSeq(reviews[pr], LAMBDA r : r.author = BotLogin)

HasUncheckedItem(text) == \E i \in 1..Len(text) : text[i].t = "item" /\ ~text[i].chk

C40_ReviewAgreesInTheEnd ==
    \A pr \in PRNumbers :
        (AllHandled(pr) /\ IsSome(findBotComment(pr)) /\ BotReviews(pr) # <<>>) =>
            BotReviews(pr)[Len(BotReviews(pr))].event =
                IF HasUncheckedItem(Get(findBotComment(pr)).body)
                THEN "REQUEST_CHANGES" ELSE "APPROVE"


====
